---- MODULE Spec2Model ----
(***************************************************************************)
(* ChainEVM: the EVM transaction execution use case, the transaction       *)
(* repository and the retry manager with its dead-letter sink.             *)
(*                                                                         *)
(* Go strings that the code validates by regular expression (addresses,    *)
(* operation ids, transaction hashes) are sequences of one-character       *)
(* strings, so that validation is computed and not assumed.  A nil pointer *)
(* or a nil error is the empty sequence <<>>, a non-nil one is <<v>>.      *)
(***************************************************************************)
EXTENDS Integers, Sequences, FiniteSets, TLC

(***************************************************************************)
(* Bounds of the model.                                                    *)
(***************************************************************************)
\* Execute calls started in one behaviour of Spec, over all workers.
MaxExecutions == 2
\* Largest maxRetries a RetryManager is constructed with.
MaxRetriesBound == 2

(***************************************************************************)
(* Strings as character sequences.                                         *)
(***************************************************************************)
Rep(c, n) == [i \in 1..n |-> c]

Digits == {"0", "1", "2", "3", "4", "5", "6", "7", "8", "9"}
LowerHex == Digits \cup {"a", "b", "c", "d", "e", "f"}
Hex == LowerHex \cup {"A", "B", "C", "D", "E", "F"}

AllIn(s, S) == \A i \in 1..Len(s) : s[i] \in S

\* Strips an optional "0x" prefix: the (0x)? group of the patterns.
StripOx(s) ==
    IF Len(s) >= 2 /\ s[1] = "0" /\ s[2] = "x" THEN SubSeq(s, 3, Len(s)) ELSE s

\* ^(0x)?[0-9a-fA-F]{40}$
isValidEVMAddress(address) ==
    Len(StripOx(address)) = 40 /\ AllIn(StripOx(address), Hex)

\* ^[0-9a-f]{8}-[0-9a-f]{4}-[0-9a-f]{4}-[0-9a-f]{4}-[0-9a-f]{12}$
isValidOperationID(id) ==
    /\ Len(id) = 36
    /\ \A i \in 1..36 :
          IF i \in {9, 14, 19, 24} THEN id[i] = "-" ELSE id[i] \in LowerHex

\* ^(0x)?[0-9a-fA-F]{64}$
isValidTransactionHash(hash) ==
    Len(StripOx(hash)) = 64 /\ AllIn(StripOx(hash), Hex)

ChainTypes == {"ETHEREUM", "POLYGON", "BSC", "ARBITRUM", "OPTIMISM", "AVALANCHE"}
ChainTypeIsValid(c) == c \in ChainTypes

WriteOperationTypes ==
    {"TRANSFER", "DEPLOY", "CALL", "APPROVE", "SWAP", "STAKE", "UNSTAKE",
     "WITHDRAW", "MINT", "BURN"}
ReadOperationTypes == {"QUERY", "GET_BALANCE", "GET_NONCE", "ESTIMATE_GAS"}
OperationTypeIsValid(o) == o \in WriteOperationTypes \cup ReadOperationTypes
IsWriteOperation(o) == o \in WriteOperationTypes

\* NewTransactionHash: the value and whether validation passed ("" on error).
NewTransactionHash(value) ==
    IF isValidTransactionHash(value) THEN [hash |-> value, ok |-> TRUE]
    ELSE [hash |-> <<>>, ok |-> FALSE]

(***************************************************************************)
(* The EVMTransaction entity.  createdAt and the payload are omitted: no   *)
(* operation of the model reads them.  executedAt keeps only whether it is *)
(* set.                                                                    *)
(***************************************************************************)
NewEVMTransaction(operationID, chainType, operationType, fromAddr, toAddr, idempotencyKey) ==
    [operationID    |-> operationID,
     chainType      |-> chainType,
     operationType  |-> operationType,
     fromAddress    |-> fromAddr,
     toAddress      |-> toAddr,
     txHash         |-> <<>>,
     status         |-> "PENDING",
     executedAt     |-> <<>>,
     blockNumber    |-> <<>>,
     gasUsed        |-> <<>>,
     gasPrice       |-> <<>>,
     nonce          |-> <<>>,
     errorMessage   |-> "",
     idempotencyKey |-> idempotencyKey]

MarkAsProcessing(t) == [t EXCEPT !.status = "PROCESSING"]

\* MarkAsSuccess without the hash assignment.
MarkAsSuccessDroppingHash(t, txHash, blockNumber, gasUsed) ==
    [t EXCEPT !.status = "SUCCESS", !.blockNumber = blockNumber,
              !.gasUsed = gasUsed, !.executedAt = <<"now">>]
MarkAsSuccess(t, txHash, blockNumber, gasUsed) ==
    [t EXCEPT !.status = "SUCCESS", !.txHash = txHash,
              !.blockNumber = <<blockNumber>>, !.gasUsed = <<gasUsed>>,
              !.executedAt = <<"now">>]

MarkAsConfirmed(t) == [t EXCEPT !.status = "CONFIRMED"]

\* MarkAsFailed without the status assignment.
MarkAsFailedKeepingStatus(t, errorMsg) ==
    [t EXCEPT !.errorMessage = errorMsg, !.executedAt = <<"now">>]
MarkAsFailed(t, errorMsg) ==
    [t EXCEPT !.status = "FAILED", !.errorMessage = errorMsg,
              !.executedAt = <<"now">>]

SetTxMetadata(t, gasPrice, nonce) ==
    [t EXCEPT !.gasPrice = <<gasPrice>>, !.nonce = <<nonce>>]

(***************************************************************************)
(* Application errors: a code, a message and the text of the wrapped       *)
(* error ("" when nil).                                                    *)
(***************************************************************************)
ErrValidationFailedCode == "VALIDATION_FAILED"
ErrRPCFailedCode == "RPC_FAILED"
ErrChainNotSupportedCode == "CHAIN_NOT_SUPPORTED"
ErrDatabaseErrorCode == "DATABASE_ERROR"
ErrTransactionFailedCode == "TRANSACTION_FAILED"

NewAppError(code, message, err) == [code |-> code, message |-> message, err |-> err]

\* AppError.Error(): the parts of "CODE: message (err)" or "CODE: message".
AppErrorText(e) ==
    IF e.err # "" THEN <<e.code, ": ", e.message, " (", e.err, ")">>
    ELSE <<e.code, ": ", e.message>>

(***************************************************************************)
(* The DynamoDB transaction repository.  The table is keyed by             *)
(* operation_id; PutItem replaces the item stored under the key.           *)
(***************************************************************************)
\* Save: the TransactionItem built from the entity.
TransactionItem(t) ==
    [OperationID     |-> t.operationID,
     IdempotencyKey  |-> t.idempotencyKey,
     ChainType       |-> t.chainType,
     OperationType   |-> t.operationType,
     FromAddress     |-> t.fromAddress,
     ToAddress       |-> t.toAddress,
     Status          |-> t.status,
     TransactionHash |-> t.txHash,
     BlockNumber     |-> t.blockNumber,
     GasUsed         |-> t.gasUsed,
     GasPrice        |-> t.gasPrice,
     ErrorMessage    |-> t.errorMessage,
     ExecutedAt      |-> t.executedAt]

\* The "Restaurar estado" switch of unmarshalTransactionItem.
RestoreStatus(t, item) ==
    CASE item.Status = "PENDING" -> t
      [] item.Status = "PROCESSING" -> MarkAsProcessing(t)
      [] item.Status = "SUCCESS" ->
            IF item.TransactionHash # <<>>
            THEN MarkAsSuccess(t,
                    NewTransactionHash(item.TransactionHash).hash,
                    IF item.BlockNumber # <<>> THEN item.BlockNumber[1] ELSE 0,
                    IF item.GasUsed # <<>> THEN item.GasUsed[1] ELSE 0)
            ELSE t
      [] item.Status = "CONFIRMED" -> MarkAsConfirmed(t)
      [] item.Status = "FAILED" -> MarkAsFailed(t, item.ErrorMessage)
      [] OTHER -> t

\* unmarshalTransactionItem: <<tx>> and "" on success, <<>> and the error otherwise.
unmarshalTransactionItem(item) ==
    IF ~isValidOperationID(item.OperationID)
    THEN [tx |-> <<>>, err |-> "invalid operation ID"]
    ELSE IF ~ChainTypeIsValid(item.ChainType)
    THEN [tx |-> <<>>, err |-> "invalid chain type"]
    ELSE IF ~OperationTypeIsValid(item.OperationType)
    THEN [tx |-> <<>>, err |-> "invalid operation type"]
    ELSE IF ~isValidEVMAddress(item.FromAddress)
    THEN [tx |-> <<>>, err |-> "invalid EVM address"]
    ELSE IF ~isValidEVMAddress(item.ToAddress)
    THEN [tx |-> <<>>, err |-> "invalid EVM address"]
    ELSE [tx |-> <<RestoreStatus(
                     NewEVMTransaction(item.OperationID, item.ChainType,
                         item.OperationType, item.FromAddress, item.ToAddress,
                         item.IdempotencyKey),
                     item)>>,
          err |-> ""]

\* PutItem of Save on table tbl.
PutItem(tbl, t) == [tbl EXCEPT ![t.operationID] = <<TransactionItem(t)>>]

\* The items of the idempotency_key index for key.
ItemsByKey(tbl, key) ==
    {tbl[id][1] : id \in {i \in DOMAIN tbl : tbl[i] # <<>> /\ tbl[i][1].IdempotencyKey = key}}

\* GetByIdempotencyKey: every result the call can return on table tbl.  The
\* query can fail; it finds nothing; or it answers from Items[0], which is
\* any one of the items under the key (the index has no sort key).
GetByIdempotencyKey(tbl, key) ==
    {[tx |-> <<>>, err |-> "failed to query transaction"]}
    \cup (IF ItemsByKey(tbl, key) = {}
          THEN {[tx |-> <<>>, err |-> "transaction not found"]}
          ELSE {unmarshalTransactionItem(item) : item \in ItemsByKey(tbl, key)})

\* GetByOperationID on a table that answers.
GetByOperationID(tbl, id) ==
    IF tbl[id] = <<>> THEN [tx |-> <<>>, err |-> "transaction not found"]
    ELSE unmarshalTransactionItem(tbl[id][1])

\* buildResponse (CreatedAt omitted with the entity's createdAt).
buildResponse(t) ==
    [OperationID     |-> t.operationID,
     ChainType       |-> t.chainType,
     TransactionHash |-> t.txHash,
     Status          |-> t.status,
     BlockNumber     |-> t.blockNumber,
     GasUsed         |-> t.gasUsed,
     GasPrice        |-> t.gasPrice,
     ErrorMessage    |-> t.errorMessage,
     ExecutedAt      |-> t.executedAt]

(***************************************************************************)
(* Inputs.                                                                 *)
(***************************************************************************)
UUID(c) == Rep(c, 8) \o <<"-">> \o Rep(c, 4) \o <<"-">> \o Rep(c, 4) \o <<"-">>
           \o Rep(c, 4) \o <<"-">> \o Rep(c, 12)

OpA == UUID("a")
OpB == UUID("b")
OpBad == <<"i", "n", "v", "a", "l", "i", "d">>
OperationIDs == {OpA, OpB}

AddrFrom == <<"0", "x">> \o Rep("1", 40)
AddrTo == Rep("A", 40)
AddrBad == <<"0", "x">> \o Rep("1", 39)

\* The hash a signer returns for a submitted transaction (Hash().Hex()).
SubmittedHash == <<"0", "x">> \o Rep("f", 64)

IdempotencyKeys == {"key-1", "key-2"}

Request(id, chain, op, from, to, key) ==
    [OperationID |-> id, ChainType |-> chain, OperationType |-> op,
     FromAddress |-> from, ToAddress |-> to, IdempotencyKey |-> key]

\* Well-formed jobs.  POLYGON is a valid chain with no RPC client configured.
\* Two jobs may share an idempotency key under different operation ids.
ValidRequests ==
    {Request(OpA, "ETHEREUM", op, AddrFrom, AddrTo, "key-1") :
        op \in {"TRANSFER", "GET_BALANCE", "GET_NONCE", "QUERY"}}
    \cup {Request(OpB, "ETHEREUM", "GET_BALANCE", AddrFrom, AddrTo, "key-1"),
          Request(OpB, "ETHEREUM", "GET_BALANCE", AddrFrom, AddrTo, "key-2"),
          Request(OpA, "POLYGON", "TRANSFER", AddrFrom, AddrTo, "key-1")}

\* Jobs with one malformed field, or with a malformed chain type and a
\* malformed operation type.
MalformedRequests ==
    {Request(OpBad, "ETHEREUM", "GET_BALANCE", AddrFrom, AddrTo, "key-1"),
     Request(OpA, "INVALID", "GET_BALANCE", AddrFrom, AddrTo, "key-1"),
     Request(OpA, "ETHEREUM", "INVALID", AddrFrom, AddrTo, "key-1"),
     Request(OpA, "ETHEREUM", "GET_BALANCE", AddrBad, AddrTo, "key-1"),
     Request(OpA, "ETHEREUM", "GET_BALANCE", AddrFrom, AddrBad, "key-1"),
     Request(OpA, "INVALID", "INVALID", AddrFrom, AddrTo, "key-1")}

Requests == ValidRequests \cup MalformedRequests

NoRequest == Request(<<>>, "", "", <<>>, <<>>, "")

\* The chains the use case holds an RPC client for (rpcClients).
RpcClients == {"ETHEREUM"}

Workers == {"w1", "w2"}

\* Values the RPC endpoint and the signer answer with.
Nonces == {5}
GasPrices == {"20000000000"}
Receipts == {[BlockNumber |-> 100, GasUsed |-> 21000]}
SignerErrors == {"failed to sign transaction", "failed to send transaction"}

(***************************************************************************)
(* State.                                                                  *)
(***************************************************************************)
VARIABLES
    table,            \* repository: operation id -> <<>> or <<item>>
    signerConfigured, \* uc.signer # nil
    pc,               \* worker -> its place in Execute
    req,              \* worker -> the request of its Execute call
    transaction,      \* worker -> <<>> or <<the entity of its call>>
    txHashStr,        \* worker -> the hash returned by SignAndSendTransaction
    pendingErr,       \* worker -> the error to return after the best-effort Save
    calls,            \* worker -> the repository, RPC and signer calls of its call
    startedAt,        \* worker -> Len(returns) when its call started
    returns,          \* the Execute calls that returned, in order
    started           \* Execute calls started so far

execVars == <<table, signerConfigured, pc, req, transaction, txHashStr, pendingErr,
              calls, startedAt, returns, started>>

VARIABLES
    maxRetries,   \* config.MaxRetries of the RetryManager
    rmPc,         \* the place of ProcessWithRetry
    message,      \* the job handed to ProcessWithRetry
    attempt,      \* the loop counter
    backoff,      \* the next delay, in milliseconds
    ctxCancelled, \* ctx.Err() # nil
    procErrs,     \* the error text of each processor invocation (<<>>: nil)
    sleeps,       \* the delays slept so far
    dlqCalls,     \* the SendMessage calls on the dead-letter sink
    rmResult      \* <<>> while running, <<error text>> once returned (<<<<>>>>: nil)

retryVars == <<maxRetries, rmPc, message, attempt, backoff, ctxCancelled, procErrs,
               sleeps, dlqCalls, rmResult>>

VARIABLES
    cb,                \* the breaker: state, failures, successes, lastFailureTime
    failureThreshold,  \* cb.failureThreshold
    successThreshold,  \* cb.successThreshold
    timeout,           \* cb.timeout, in ticks of the clock
    now,               \* the clock
    cbLocal,           \* caller -> its place in State or Call and what it read
    cbLast,            \* the last step made on the breaker
    track              \* counts kept about the breaker's history

cbVars == <<cb, failureThreshold, successThreshold, timeout, now, cbLocal, cbLast, track>>

VARIABLES
    wf,     \* the WaitForConfirmations call of the TransactionSigner
    pm,     \* the processMessage call of the Lambda handler
    cache,  \* the RPCCache
    rt      \* a Transaction saved to the repository and read back

sideVars == <<wf, pm, cache, rt>>

vars == <<execVars, retryVars, cbVars, sideVars>>

\* One call on a collaborator (the repository, the RPC client or the signer):
\* the entity passed to Save or returned by a lookup, the address queried.
CallRec(op, ok, t, addr) ==
    [op |-> op, ok |-> ok, tx |-> t, addr |-> addr,
     err |-> IF ok THEN "" ELSE IF ctxCancelled THEN "context canceled" ELSE "error"]

\* The outcomes of a call that is handed ctx: it fails once ctx is cancelled.
CallOutcomes == IF ctxCancelled THEN {FALSE} ELSE BOOLEAN

\* The call of GetByIdempotencyKey that returned got.
LookupRec(got) ==
    [op |-> "GetByIdempotencyKey", ok |-> got.err = "", tx |-> got.tx,
     addr |-> <<>>, err |-> got.err]

\* What GetByOperationID would find under id on table tbl.
StoredUnder(tbl, id) == IF id \in DOMAIN tbl THEN tbl[id] ELSE <<>>

NoErr == NewAppError("", "", "")

ExecInit ==
    /\ table = [id \in OperationIDs |-> <<>>]
    /\ signerConfigured \in BOOLEAN
    /\ pc = [w \in Workers |-> "idle"]
    /\ req = [w \in Workers |-> NoRequest]
    /\ transaction = [w \in Workers |-> <<>>]
    /\ txHashStr = [w \in Workers |-> <<>>]
    /\ pendingErr = [w \in Workers |-> NoErr]
    /\ calls = [w \in Workers |-> <<>>]
    /\ startedAt = [w \in Workers |-> 0]
    /\ returns = <<>>
    /\ started = 0

(***************************************************************************)
(* ExecuteEVMTransactionUseCase.Execute, one action per call on the        *)
(* repository, the RPC client or the signer; the code between two calls    *)
(* belongs to the action of the call before it.                            *)
(***************************************************************************)
\* Execute returns (resp, err) to its caller: <<>> is nil.  The record of the
\* return keeps what the repository holds under the job's operation id then.
Return(w, resp, err, cs, tbl) ==
    /\ pc' = [pc EXCEPT ![w] = "returned"]
    /\ calls' = [calls EXCEPT ![w] = cs]
    /\ returns' = Append(returns,
                    [worker |-> w, req |-> req[w], resp |-> resp, err |-> err,
                     calls |-> cs, startedAt |-> startedAt[w],
                     stored |-> StoredUnder(tbl, req[w].OperationID)])

\* A failure path that returns the error without storing the Failed entity.
FailWithoutSave(w, t, errorMsg, err, cs) ==
    /\ transaction' = [transaction EXCEPT ![w] = <<MarkAsFailed(t, errorMsg)>>]
    /\ pendingErr' = [pendingErr EXCEPT ![w] = err]
    /\ Return(w, <<>>, <<err>>, cs, table)

\* A failure path: the entity is marked Failed and err is kept for the return
\* that follows the best-effort Save.
FailWith(w, t, errorMsg, err, cs) ==
    /\ transaction' = [transaction EXCEPT ![w] = <<MarkAsFailed(t, errorMsg)>>]
    /\ pendingErr' = [pendingErr EXCEPT ![w] = err]
    /\ pc' = [pc EXCEPT ![w] = "save_failed"]
    /\ calls' = [calls EXCEPT ![w] = cs]
    /\ UNCHANGED returns

\* The first failing validation of the request, as the error Execute returns;
\* <<>> when every field is well formed.
\* The validation without the check of the destination address.
ValidationErrorSkippingTo(r) ==
    IF ~ChainTypeIsValid(r.ChainType)
    THEN <<NewAppError(ErrChainNotSupportedCode, "invalid chain type", "invalid chain type")>>
    ELSE IF ~OperationTypeIsValid(r.OperationType)
    THEN <<NewAppError(ErrValidationFailedCode, "invalid operation type", "invalid operation type")>>
    ELSE IF ~isValidOperationID(r.OperationID)
    THEN <<NewAppError(ErrValidationFailedCode, "invalid operation ID", "invalid operation ID")>>
    ELSE IF ~isValidEVMAddress(r.FromAddress)
    THEN <<NewAppError(ErrValidationFailedCode, "invalid EVM address", "invalid EVM address")>>
    ELSE <<>>
\* The validation with one error code for every malformed field.
ValidationErrorOneCode(r) ==
    IF ~ChainTypeIsValid(r.ChainType)
    THEN <<NewAppError(ErrValidationFailedCode, "invalid chain type", "invalid chain type")>>
    ELSE IF ~OperationTypeIsValid(r.OperationType)
    THEN <<NewAppError(ErrValidationFailedCode, "invalid operation type", "invalid operation type")>>
    ELSE IF ~isValidOperationID(r.OperationID)
    THEN <<NewAppError(ErrValidationFailedCode, "invalid operation ID", "invalid operation ID")>>
    ELSE IF ~isValidEVMAddress(r.FromAddress)
    THEN <<NewAppError(ErrValidationFailedCode, "invalid EVM address", "invalid EVM address")>>
    ELSE IF ~isValidEVMAddress(r.ToAddress)
    THEN <<NewAppError(ErrValidationFailedCode, "invalid EVM address", "invalid EVM address")>>
    ELSE <<>>
ValidationError(r) ==
    IF ~ChainTypeIsValid(r.ChainType)
    THEN <<NewAppError(ErrChainNotSupportedCode, "invalid chain type", "invalid chain type")>>
    ELSE IF ~OperationTypeIsValid(r.OperationType)
    THEN <<NewAppError(ErrValidationFailedCode, "invalid operation type", "invalid operation type")>>
    ELSE IF ~isValidOperationID(r.OperationID)
    THEN <<NewAppError(ErrValidationFailedCode, "invalid operation ID", "invalid operation ID")>>
    ELSE IF ~isValidEVMAddress(r.FromAddress)
    THEN <<NewAppError(ErrValidationFailedCode, "invalid EVM address", "invalid EVM address")>>
    ELSE IF ~isValidEVMAddress(r.ToAddress)
    THEN <<NewAppError(ErrValidationFailedCode, "invalid EVM address", "invalid EVM address")>>
    ELSE <<>>

\* Execute is entered with request r: the validations.
ExecuteBegin(w, r) ==
    /\ started' = started + 1
    /\ req' = [req EXCEPT ![w] = r]
    /\ startedAt' = [startedAt EXCEPT ![w] = Len(returns)]
    /\ transaction' = [transaction EXCEPT ![w] = <<>>]
    /\ txHashStr' = [txHashStr EXCEPT ![w] = <<>>]
    /\ pendingErr' = [pendingErr EXCEPT ![w] = NoErr]
    /\ IF ValidationError(r) # <<>>
       THEN /\ pc' = [pc EXCEPT ![w] = "returned"]
            /\ calls' = [calls EXCEPT ![w] = <<>>]
            /\ returns' = Append(returns,
                            [worker |-> w, req |-> r, resp |-> <<>>,
                             err |-> ValidationError(r), calls |-> <<>>,
                             startedAt |-> Len(returns),
                             stored |-> StoredUnder(table, r.OperationID)])
       ELSE /\ pc' = [pc EXCEPT ![w] = "lookup"]
            /\ calls' = [calls EXCEPT ![w] = <<>>]
            /\ UNCHANGED returns
    /\ UNCHANGED <<table, signerConfigured>>

\* The idempotency condition with the error test inverted.
IdempotentHitOnError(got) == got.err # "" /\ got.tx # <<>>
\* err == nil && existingTx != nil
IdempotentHit(got) == got.err = "" /\ got.tx # <<>>

\* The idempotency check, and the entity built when it finds nothing.
ExecuteLookup(w) ==
    /\ pc[w] = "lookup"
    /\ \E got \in {g \in GetByIdempotencyKey(table, req[w].IdempotencyKey) :
                      ctxCancelled => g.err = "failed to query transaction"} :
         LET cs == Append(calls[w], LookupRec(got))
         IN IF IdempotentHit(got)
            THEN /\ Return(w, <<buildResponse(got.tx[1])>>, <<>>, cs, table)
                 /\ UNCHANGED transaction
            ELSE /\ transaction' = [transaction EXCEPT ![w] =
                        <<MarkAsProcessing(NewEVMTransaction(
                              req[w].OperationID, req[w].ChainType,
                              req[w].OperationType, req[w].FromAddress,
                              req[w].ToAddress, req[w].IdempotencyKey))>>]
                 /\ pc' = [pc EXCEPT ![w] = "save_processing"]
                 /\ calls' = [calls EXCEPT ![w] = cs]
                 /\ UNCHANGED returns
    /\ UNCHANGED <<table, signerConfigured, req, txHashStr, pendingErr, startedAt, started>>
    /\ UNCHANGED <<retryVars, cbVars, sideVars>>

\* The dispatch that hands a write operation to the signer at once.
DispatchToSigner(w, t, cs) ==
    IF req[w].ChainType \notin RpcClients
    THEN FailWith(w, t, "RPC client not found",
                  NewAppError(ErrChainNotSupportedCode, "chain not supported", ""), cs)
    ELSE IF IsWriteOperation(req[w].OperationType)
    THEN IF ~signerConfigured
         THEN FailWith(w, t, "transaction signer not configured",
                       NewAppError(ErrValidationFailedCode, "signer not configured", ""), cs)
         ELSE /\ pc' = [pc EXCEPT ![w] = "sign_and_send"]
              /\ calls' = [calls EXCEPT ![w] = cs]
              /\ UNCHANGED <<transaction, pendingErr, returns>>
    ELSE IF req[w].OperationType = "GET_BALANCE"
    THEN /\ pc' = [pc EXCEPT ![w] = "get_balance"]
         /\ calls' = [calls EXCEPT ![w] = cs]
         /\ UNCHANGED <<transaction, pendingErr, returns>>
    ELSE IF req[w].OperationType = "GET_NONCE"
    THEN /\ pc' = [pc EXCEPT ![w] = "read_nonce"]
         /\ calls' = [calls EXCEPT ![w] = cs]
         /\ UNCHANGED <<transaction, pendingErr, returns>>
    ELSE /\ transaction' = [transaction EXCEPT ![w] = <<MarkAsSuccess(t, <<>>, 0, 0)>>]
         /\ pc' = [pc EXCEPT ![w] = "save_final"]
         /\ calls' = [calls EXCEPT ![w] = cs]
         /\ UNCHANGED <<pendingErr, returns>>

\* Where Execute goes once the Processing entity is stored: the RPC client
\* lookup and the dispatch on the operation type, up to the next call.
Dispatch(w, t, cs) ==
    IF req[w].ChainType \notin RpcClients
    THEN FailWith(w, t, "RPC client not found",
                  NewAppError(ErrChainNotSupportedCode, "chain not supported", ""), cs)
    ELSE IF IsWriteOperation(req[w].OperationType)
    THEN IF ~signerConfigured
         THEN FailWith(w, t, "transaction signer not configured",
                       NewAppError(ErrValidationFailedCode, "signer not configured", ""), cs)
         ELSE /\ pc' = [pc EXCEPT ![w] = "get_nonce"]
              /\ calls' = [calls EXCEPT ![w] = cs]
              /\ UNCHANGED <<transaction, pendingErr, returns>>
    ELSE IF req[w].OperationType = "GET_BALANCE"
    THEN /\ pc' = [pc EXCEPT ![w] = "get_balance"]
         /\ calls' = [calls EXCEPT ![w] = cs]
         /\ UNCHANGED <<transaction, pendingErr, returns>>
    ELSE IF req[w].OperationType = "GET_NONCE"
    THEN /\ pc' = [pc EXCEPT ![w] = "read_nonce"]
         /\ calls' = [calls EXCEPT ![w] = cs]
         /\ UNCHANGED <<transaction, pendingErr, returns>>
    ELSE /\ transaction' = [transaction EXCEPT ![w] = <<MarkAsSuccess(t, <<>>, 0, 0)>>]
         /\ pc' = [pc EXCEPT ![w] = "save_final"]
         /\ calls' = [calls EXCEPT ![w] = cs]
         /\ UNCHANGED <<pendingErr, returns>>

\* The first Save, of the entity in Processing.
ExecuteSaveProcessing(w) ==
    /\ pc[w] = "save_processing"
    /\ \E ok \in CallOutcomes :
         LET t == transaction[w][1]
             cs == Append(calls[w], CallRec("Save", ok, <<t>>, <<>>))
         IN IF ok
            THEN /\ table' = PutItem(table, t)
                 /\ Dispatch(w, t, cs)
            ELSE /\ UNCHANGED table
                 /\ FailWith(w, t, "database error",
                        NewAppError(ErrDatabaseErrorCode, "failed to save transaction",
                                    "failed to save transaction"), cs)
    /\ UNCHANGED <<signerConfigured, req, txHashStr, startedAt, started>>
    /\ UNCHANGED <<retryVars, cbVars, sideVars>>

\* The best-effort Save of a Failed entity, then the return of the error.
ExecuteSaveFailed(w) ==
    /\ pc[w] = "save_failed"
    /\ \E ok \in CallOutcomes :
         LET t == transaction[w][1]
             cs == Append(calls[w], CallRec("Save", ok, <<t>>, <<>>))
         IN /\ table' = IF ok THEN PutItem(table, t) ELSE table
            /\ Return(w, <<>>, <<pendingErr[w]>>, cs, table')
    /\ UNCHANGED <<signerConfigured, req, transaction, txHashStr, pendingErr, startedAt, started>>
    /\ UNCHANGED <<retryVars, cbVars, sideVars>>

\* Write path: rpcClient.GetNonce on the sender.
ExecuteGetNonce(w) ==
    /\ pc[w] = "get_nonce"
    /\ \E ok \in CallOutcomes :
         LET t == transaction[w][1]
             cs == Append(calls[w], CallRec("GetNonce", ok, <<>>, req[w].FromAddress))
         IN IF ok
            THEN /\ pc' = [pc EXCEPT ![w] = "get_gas_price"]
                 /\ calls' = [calls EXCEPT ![w] = cs]
                 /\ UNCHANGED <<transaction, pendingErr, returns>>
            ELSE FailWith(w, t, "failed to get nonce",
                    NewAppError(ErrRPCFailedCode, "failed to get nonce", "rpc error"), cs)
    /\ UNCHANGED <<table, signerConfigured, req, txHashStr, startedAt, started>>
    /\ UNCHANGED <<retryVars, cbVars, sideVars>>

\* Write path: rpcClient.GetGasPrice, then SetTxMetadata.
ExecuteGetGasPrice(w) ==
    /\ pc[w] = "get_gas_price"
    /\ \E ok \in CallOutcomes, gasPrice \in GasPrices, nonce \in Nonces :
         LET t == transaction[w][1]
             cs == Append(calls[w], CallRec("GetGasPrice", ok, <<>>, <<>>))
         IN IF ok
            THEN /\ transaction' = [transaction EXCEPT ![w] = <<SetTxMetadata(t, gasPrice, nonce)>>]
                 /\ pc' = [pc EXCEPT ![w] = "sign_and_send"]
                 /\ calls' = [calls EXCEPT ![w] = cs]
                 /\ UNCHANGED <<pendingErr, returns>>
            ELSE FailWith(w, t, "failed to get gas price",
                    NewAppError(ErrRPCFailedCode, "failed to get gas price", "rpc error"), cs)
    /\ UNCHANGED <<table, signerConfigured, req, txHashStr, startedAt, started>>
    /\ UNCHANGED <<retryVars, cbVars, sideVars>>

\* Write path: signer.SignAndSendTransaction.
ExecuteSignAndSend(w) ==
    /\ pc[w] = "sign_and_send"
    /\ LET t == transaction[w][1]
       IN \/ /\ ~ctxCancelled
             /\ txHashStr' = [txHashStr EXCEPT ![w] = SubmittedHash]
             /\ pc' = [pc EXCEPT ![w] = "wait_confirmations"]
             /\ calls' = [calls EXCEPT ![w] =
                   Append(calls[w], CallRec("SignAndSendTransaction", TRUE, <<>>, <<>>))]
             /\ UNCHANGED <<transaction, pendingErr, returns>>
          \/ \E e \in SignerErrors :
               /\ FailWith(w, t, e,
                     NewAppError(ErrRPCFailedCode, "failed to sign and send transaction", e),
                     Append(calls[w], CallRec("SignAndSendTransaction", FALSE, <<>>, <<>>)))
               /\ UNCHANGED txHashStr
    /\ UNCHANGED <<table, signerConfigured, req, startedAt, started>>
    /\ UNCHANGED <<retryVars, cbVars, sideVars>>

\* Write path: signer.WaitForConfirmations, then MarkAsSuccess from the receipt.
ExecuteWaitForConfirmations(w) ==
    /\ pc[w] = "wait_confirmations"
    /\ \E ok \in CallOutcomes, receipt \in Receipts :
         LET t == transaction[w][1]
             cs == Append(calls[w], CallRec("WaitForConfirmations", ok, <<>>, <<>>))
         IN IF ok
            THEN /\ transaction' = [transaction EXCEPT ![w] =
                        <<MarkAsSuccess(t, NewTransactionHash(txHashStr[w]).hash,
                                        receipt.BlockNumber, receipt.GasUsed)>>]
                 /\ pc' = [pc EXCEPT ![w] = "save_final"]
                 /\ calls' = [calls EXCEPT ![w] = cs]
                 /\ UNCHANGED <<pendingErr, returns>>
            ELSE FailWith(w, t, "confirmation timeout",
                    NewAppError(ErrRPCFailedCode, "transaction not confirmed",
                                "timeout waiting for confirmations"), cs)
    /\ UNCHANGED <<table, signerConfigured, req, txHashStr, startedAt, started>>
    /\ UNCHANGED <<retryVars, cbVars, sideVars>>

\* GET_BALANCE with the balance of the sender looked up.
ExecuteGetBalanceOfSender(w) ==
    /\ pc[w] = "get_balance"
    /\ \E ok \in CallOutcomes :
         LET t == transaction[w][1]
             cs == Append(calls[w], CallRec("GetBalance", ok, <<>>, req[w].FromAddress))
         IN IF ok
            THEN /\ transaction' = [transaction EXCEPT ![w] = <<MarkAsSuccess(t, <<>>, 0, 0)>>]
                 /\ pc' = [pc EXCEPT ![w] = "save_final"]
                 /\ calls' = [calls EXCEPT ![w] = cs]
                 /\ UNCHANGED <<pendingErr, returns>>
            ELSE FailWith(w, t, "failed to get balance",
                    NewAppError(ErrRPCFailedCode, "failed to get balance", "rpc error"), cs)
    /\ UNCHANGED <<table, signerConfigured, req, txHashStr, startedAt, started>>
    /\ UNCHANGED <<retryVars, cbVars, sideVars>>

\* Read path, GET_BALANCE: rpcClient.GetBalance on the recipient.
ExecuteGetBalance(w) ==
    /\ pc[w] = "get_balance"
    /\ \E ok \in CallOutcomes :
         LET t == transaction[w][1]
             cs == Append(calls[w], CallRec("GetBalance", ok, <<>>, req[w].ToAddress))
         IN IF ok
            THEN /\ transaction' = [transaction EXCEPT ![w] = <<MarkAsSuccess(t, <<>>, 0, 0)>>]
                 /\ pc' = [pc EXCEPT ![w] = "save_final"]
                 /\ calls' = [calls EXCEPT ![w] = cs]
                 /\ UNCHANGED <<pendingErr, returns>>
            ELSE FailWith(w, t, "failed to get balance",
                    NewAppError(ErrRPCFailedCode, "failed to get balance", "rpc error"), cs)
    /\ UNCHANGED <<table, signerConfigured, req, txHashStr, startedAt, started>>
    /\ UNCHANGED <<retryVars, cbVars, sideVars>>

\* Read path, GET_NONCE: rpcClient.GetNonce on the sender.
ExecuteReadNonce(w) ==
    /\ pc[w] = "read_nonce"
    /\ \E ok \in CallOutcomes :
         LET t == transaction[w][1]
             cs == Append(calls[w], CallRec("GetNonce", ok, <<>>, req[w].FromAddress))
         IN IF ok
            THEN /\ transaction' = [transaction EXCEPT ![w] = <<MarkAsSuccess(t, <<>>, 0, 0)>>]
                 /\ pc' = [pc EXCEPT ![w] = "save_final"]
                 /\ calls' = [calls EXCEPT ![w] = cs]
                 /\ UNCHANGED <<pendingErr, returns>>
            ELSE FailWith(w, t, "failed to get nonce",
                    NewAppError(ErrRPCFailedCode, "failed to get nonce", "rpc error"), cs)
    /\ UNCHANGED <<table, signerConfigured, req, txHashStr, startedAt, started>>
    /\ UNCHANGED <<retryVars, cbVars, sideVars>>

\* The Save of the result, and the return.
ExecuteSaveFinal(w) ==
    /\ pc[w] = "save_final"
    /\ \E ok \in CallOutcomes :
         LET t == transaction[w][1]
             cs == Append(calls[w], CallRec("Save", ok, <<t>>, <<>>))
         IN IF ok
            THEN /\ table' = PutItem(table, t)
                 /\ Return(w, <<buildResponse(t)>>, <<>>, cs, table')
            ELSE /\ UNCHANGED table
                 /\ Return(w, <<>>,
                      <<NewAppError(ErrDatabaseErrorCode, "failed to update transaction",
                                    "failed to save transaction")>>, cs, table)
    /\ UNCHANGED <<signerConfigured, req, transaction, txHashStr, pendingErr, startedAt, started>>
    /\ UNCHANGED <<retryVars, cbVars, sideVars>>

\* The steps of a call in progress.
ExecuteStep(w) ==
    \/ ExecuteLookup(w)
    \/ ExecuteSaveProcessing(w)
    \/ ExecuteSaveFailed(w)
    \/ ExecuteGetNonce(w)
    \/ ExecuteGetGasPrice(w)
    \/ ExecuteSignAndSend(w)
    \/ ExecuteWaitForConfirmations(w)
    \/ ExecuteGetBalance(w)
    \/ ExecuteReadNonce(w)
    \/ ExecuteSaveFinal(w)

\* A worker that is not inside Execute calls it with some job.
Call(w) ==
    /\ pc[w] \in {"idle", "returned"}
    /\ started < MaxExecutions
    /\ \E r \in Requests : ExecuteBegin(w, r)
    /\ UNCHANGED <<retryVars, cbVars, sideVars>>

(***************************************************************************)
(* RetryManager.ProcessWithRetry.                                          *)
(***************************************************************************)
\* DefaultRetryConfig, durations in milliseconds.
InitialBackoff == 100
MaxBackoff == 5000
BackoffMultiplier == 2

Messages == ValidRequests
ProcessorErrors == {<<"processing failed">>, <<"rpc unavailable">>}
DLQErrors == {<<"failed to send message to DLQ">>}

NilError == <<>>

RetryIdle ==
    /\ rmPc = "idle"
    /\ message = NoRequest
    /\ attempt = 0
    /\ backoff = 0
    /\ ctxCancelled = FALSE
    /\ procErrs = <<>>
    /\ sleeps = <<>>
    /\ dlqCalls = <<>>
    /\ rmResult = <<>>

\* NewRetryManager(dlqHandler, maxRetries, logger).
RetryInit ==
    /\ maxRetries \in 0..MaxRetriesBound
    /\ RetryIdle

\* ProcessWithRetry returns err.
RMReturn(err) ==
    /\ rmResult' = <<err>>
    /\ rmPc' = "done"

\* ProcessWithRetry is called: backoff := InitialBackoff, attempt := 0.
RMStart ==
    /\ rmPc = "idle"
    /\ \E m \in Messages : message' = m
    /\ attempt' = 0
    /\ backoff' = InitialBackoff
    /\ rmPc' = "loop"
    /\ UNCHANGED <<maxRetries, ctxCancelled, procErrs, sleeps, dlqCalls, rmResult>>
    /\ UNCHANGED <<execVars, cbVars, sideVars>>

\* The head of the loop: the loop condition and the ctx.Err() check, up to the
\* invocation of the processor.
RMLoop ==
    /\ rmPc = "loop"
    /\ IF ~(attempt <= maxRetries)
       THEN RMReturn(<<"unexpected error: retry loop exited without result">>)
       ELSE IF ctxCancelled
       THEN RMReturn(<<"context cancelled: ", "context canceled">>)
       ELSE rmPc' = "processing" /\ UNCHANGED rmResult
    /\ UNCHANGED <<maxRetries, message, attempt, backoff, ctxCancelled, procErrs,
                   sleeps, dlqCalls>>
    /\ UNCHANGED <<execVars, cbVars, sideVars>>

\* The last-attempt test one attempt early.
LastAttemptEarly(a, m) == a + 1 = m
\* attempt == rm.config.MaxRetries
LastAttempt(a, m) == a = m

\* The step after the processor without the test for success.
RMAfterWithoutSuccessTest ==
    /\ rmPc = "after"
    /\ LET err == procErrs[Len(procErrs)]
       IN IF LastAttempt(attempt, maxRetries)
          THEN rmPc' = "dlq" /\ UNCHANGED rmResult
          ELSE rmPc' = "backoff" /\ UNCHANGED rmResult
    /\ UNCHANGED <<maxRetries, message, attempt, backoff, ctxCancelled, procErrs,
                   sleeps, dlqCalls>>
    /\ UNCHANGED <<execVars, cbVars, sideVars>>

\* The processor has returned err: success, the last attempt, or a retry.
RMAfter ==
    /\ rmPc = "after"
    /\ LET err == procErrs[Len(procErrs)]
       IN IF err = NilError
          THEN RMReturn(NilError)
          ELSE IF LastAttempt(attempt, maxRetries)
          THEN rmPc' = "dlq" /\ UNCHANGED rmResult
          ELSE rmPc' = "backoff" /\ UNCHANGED rmResult
    /\ UNCHANGED <<maxRetries, message, attempt, backoff, ctxCancelled, procErrs,
                   sleeps, dlqCalls>>
    /\ UNCHANGED <<execVars, cbVars, sideVars>>

\* The return after SendMessage with the sink's error dropped.
AfterSendMessageSwallowing(dlqErr, err) == <<"max retries exceeded: ">> \o err
\* The return after SendMessage with the processing error passed on as it is.
AfterSendMessageUnwrapped(dlqErr, err) ==
    IF dlqErr # NilError THEN <<"failed to send to DLQ: ">> \o dlqErr
    ELSE err
\* What ProcessWithRetry returns after SendMessage returned dlqErr (<<>>: nil)
\* for the processing error err.
AfterSendMessage(dlqErr, err) ==
    IF dlqErr # NilError THEN <<"failed to send to DLQ: ">> \o dlqErr
    ELSE <<"max retries exceeded: ">> \o err

\* The last attempt failed: dlqHandler.SendMessage(ctx, message, failureReason).
RMSendDLQ ==
    /\ rmPc = "dlq"
    /\ LET err == procErrs[Len(procErrs)]
           failureReason == <<"max retries exceeded: ">> \o err
       IN \/ /\ dlqCalls' = Append(dlqCalls,
                    [message |-> message, reason |-> failureReason, ok |-> TRUE])
             /\ RMReturn(AfterSendMessage(NilError, err))
          \/ \E dlqErr \in DLQErrors :
             /\ dlqCalls' = Append(dlqCalls,
                    [message |-> message, reason |-> failureReason, ok |-> FALSE])
             /\ RMReturn(AfterSendMessage(dlqErr, err))
    /\ UNCHANGED <<maxRetries, message, attempt, backoff, ctxCancelled, procErrs, sleeps>>
    /\ UNCHANGED <<execVars, cbVars, sideVars>>

\* The growth of the delay without the cap.
NextBackoffUncapped(b) == b * BackoffMultiplier
\* backoff = backoff * BackoffMultiplier, capped at MaxBackoff.
NextBackoff(b) ==
    IF b * BackoffMultiplier > MaxBackoff THEN MaxBackoff ELSE b * BackoffMultiplier

\* The backoff as a plain sleep, the context not looked at.
RMBackoffSleepingThrough ==
    /\ rmPc = "backoff"
    /\ sleeps' = Append(sleeps, backoff)
    /\ backoff' = NextBackoff(backoff)
    /\ attempt' = attempt + 1
    /\ rmPc' = "loop"
    /\ UNCHANGED rmResult
    /\ UNCHANGED <<maxRetries, message, ctxCancelled, procErrs, dlqCalls>>
    /\ UNCHANGED <<execVars, cbVars, sideVars>>

\* The select between time.After(backoff) and ctx.Done(), then the growth of
\* the delay and attempt++.
RMBackoff ==
    /\ rmPc = "backoff"
    /\ IF ctxCancelled
       THEN /\ RMReturn(<<"context cancelled during backoff: ", "context canceled">>)
            /\ UNCHANGED <<attempt, backoff, sleeps>>
       ELSE /\ sleeps' = Append(sleeps, backoff)
            /\ backoff' = NextBackoff(backoff)
            /\ attempt' = attempt + 1
            /\ rmPc' = "loop"
            /\ UNCHANGED rmResult
    /\ UNCHANGED <<maxRetries, message, ctxCancelled, procErrs, dlqCalls>>
    /\ UNCHANGED <<execVars, cbVars, sideVars>>

\* The caller cancels the context while ProcessWithRetry runs.
Cancel ==
    /\ rmPc \in {"loop", "processing", "executing", "after", "backoff", "dlq"}
    /\ ~ctxCancelled
    /\ ctxCancelled' = TRUE
    /\ UNCHANGED <<maxRetries, rmPc, message, attempt, backoff, procErrs, sleeps,
                   dlqCalls, rmResult>>
    /\ UNCHANGED <<execVars, cbVars, sideVars>>

\* An arbitrary processor: it returns nil or an error.
ProcessorGeneric ==
    /\ rmPc = "processing"
    /\ \E err \in {NilError} \cup ProcessorErrors : procErrs' = Append(procErrs, err)
    /\ rmPc' = "after"
    /\ UNCHANGED <<maxRetries, message, attempt, backoff, ctxCancelled, sleeps,
                   dlqCalls, rmResult>>
    /\ UNCHANGED <<execVars, cbVars, sideVars>>

\* The processor is Execute on the job of the message: entry.
ProcessorExecuteBegin ==
    /\ rmPc = "processing"
    /\ ExecuteBegin("w1", message)
    /\ rmPc' = "executing"
    /\ UNCHANGED <<maxRetries, message, attempt, backoff, ctxCancelled, procErrs,
                   sleeps, dlqCalls, rmResult>>
    /\ UNCHANGED <<cbVars, sideVars>>

\* The processor is Execute on the job of the message: its error is returned.
ProcessorExecuteEnd ==
    /\ rmPc = "executing"
    /\ pc["w1"] = "returned"
    /\ LET err == returns[Len(returns)].err
       IN procErrs' = Append(procErrs,
             IF err = <<>> THEN NilError ELSE AppErrorText(err[1]))
    /\ rmPc' = "after"
    /\ UNCHANGED <<maxRetries, message, attempt, backoff, ctxCancelled, sleeps,
                   dlqCalls, rmResult>>
    /\ UNCHANGED <<execVars, cbVars, sideVars>>

(***************************************************************************)
(* CircuitBreaker: State, Call, RecordSuccess, RecordFailure, Reset.       *)
(***************************************************************************)
\* The clock stops at MaxClock; the failure counter is followed up to MaxFailures.
MaxClock == 4
MaxFailures == 3

Callers == {"c1", "c2"}
FailureThresholds == {1, 2}
SuccessThresholds == {1, 2}
Timeouts == {1}

\* NewCircuitBreaker: Closed, both counters at zero, lastFailureTime the zero time.
NewCircuitBreaker ==
    [state |-> "CLOSED", failures |-> 0, successes |-> 0, lastFailureTime |-> <<>>]

\* time.Since(lastFailureTime) > timeout; the zero time is long past.
TimeoutElapsed(lastFailureTime, t, d) ==
    lastFailureTime = <<>> \/ t - lastFailureTime[1] > d

\* The write of State: to HalfOpen, without the reset of the success counter.
ToHalfOpenKeepingSuccesses(b) == [b EXCEPT !.state = "HALF_OPEN"]
\* The write of State: to HalfOpen, success counter reset.
ToHalfOpen(b) == [b EXCEPT !.state = "HALF_OPEN", !.successes = 0]

\* RecordSuccess without the reset of the failure counter in Closed.
RecordSuccessKeepingFailures(b, sThreshold) ==
    IF b.state = "HALF_OPEN"
    THEN IF b.successes + 1 >= sThreshold
         THEN [b EXCEPT !.state = "CLOSED", !.failures = 0, !.successes = 0]
         ELSE [b EXCEPT !.successes = b.successes + 1]
    ELSE b
\* RecordSuccess on breaker b.
RecordSuccess(b, sThreshold) ==
    IF b.state = "HALF_OPEN"
    THEN IF b.successes + 1 >= sThreshold
         THEN [b EXCEPT !.state = "CLOSED", !.failures = 0, !.successes = 0]
         ELSE [b EXCEPT !.successes = b.successes + 1]
    ELSE IF b.state = "CLOSED"
    THEN [b EXCEPT !.failures = 0]
    ELSE b

\* RecordFailure on breaker b at time t.
RecordFailure(b, fThreshold, t) ==
    [b EXCEPT !.failures = b.failures + 1,
              !.lastFailureTime = <<t>>,
              !.state = IF b.failures + 1 >= fThreshold THEN "OPEN" ELSE b.state]

\* Reset without the reset of the failure counter.
ResetKeepingFailures(b) == [b EXCEPT !.state = "CLOSED", !.successes = 0]
\* Reset on breaker b.
Reset(b) == [b EXCEPT !.state = "CLOSED", !.failures = 0, !.successes = 0]

\* Call with the rejection test left out.
RejectsNothing(state) == FALSE
\* Call rejects when State returned Open.
Rejects(state) == state = "OPEN"

\* A caller outside State and Call.
CBLocalIdle == [pc |-> "idle", api |-> "", state |-> "", lastFailureTime |-> <<>>]

\* The record of one step on the breaker: the method the caller is in, the
\* step, the breaker before and after it, whether the timeout had elapsed
\* since the last recorded failure, and for Call what State returned.
CBStep(api, step, pre, post, observed) ==
    [api |-> api, step |-> step, pre |-> pre, post |-> post,
     elapsed |-> TimeoutElapsed(pre.lastFailureTime, now, timeout),
     observed |-> observed]

\* The counts kept about the history: failures since the last success,
\* creation, Reset or closing; successes and failures recorded in HalfOpen
\* since the breaker entered it (the successes with no failure in between).
TrackInit == [sinceSuccess |-> 0, halfOpenSuccesses |-> 0, halfOpenFailures |-> 0]

TrackFailure(k, b) ==
    [k EXCEPT !.sinceSuccess = k.sinceSuccess + 1,
              !.halfOpenFailures =
                  IF b.state = "HALF_OPEN" THEN k.halfOpenFailures + 1
                  ELSE k.halfOpenFailures,
              !.halfOpenSuccesses = 0]

TrackSuccess(k, b) ==
    [k EXCEPT !.sinceSuccess = 0,
              !.halfOpenSuccesses =
                  IF b.state = "HALF_OPEN" THEN k.halfOpenSuccesses + 1
                  ELSE k.halfOpenSuccesses]

TrackHalfOpen(k) == [k EXCEPT !.halfOpenSuccesses = 0, !.halfOpenFailures = 0]

TrackReset(k) == [k EXCEPT !.sinceSuccess = 0]

\* No breaker in use.
CBIdle ==
    /\ cb = NewCircuitBreaker
    /\ failureThreshold = 1
    /\ successThreshold = 1
    /\ timeout = 1
    /\ now = 0
    /\ cbLocal = [c \in Callers |-> CBLocalIdle]
    /\ cbLast = [api |-> "", step |-> "", pre |-> NewCircuitBreaker,
                 post |-> NewCircuitBreaker, elapsed |-> FALSE, observed |-> ""]
    /\ track = TrackInit

\* A breaker just made by NewCircuitBreaker.
CBInit ==
    /\ cb = NewCircuitBreaker
    /\ failureThreshold \in FailureThresholds
    /\ successThreshold \in SuccessThresholds
    /\ timeout \in Timeouts
    /\ now = 0
    /\ cbLocal = [c \in Callers |-> CBLocalIdle]
    /\ cbLast = [api |-> "", step |-> "", pre |-> NewCircuitBreaker,
                 post |-> NewCircuitBreaker, elapsed |-> FALSE, observed |-> ""]
    /\ track = TrackInit

\* State, first part: state and lastFailureTime are read under the read lock.
ReadState(c, api) ==
    /\ cbLocal[c].pc = "idle"
    /\ cbLocal' = [cbLocal EXCEPT ![c] =
          [pc |-> "read", api |-> api, state |-> cb.state,
           lastFailureTime |-> cb.lastFailureTime]]
    /\ UNCHANGED <<cb, failureThreshold, successThreshold, timeout, now, cbLast, track>>
    /\ UNCHANGED <<execVars, retryVars, sideVars>>

\* A caller enters State.
StateBegin(c) == ReadState(c, "State")

\* A caller enters Call, which starts with State.
CallBegin(c) == ReadState(c, "Call")

\* State, second part: if what was read is Open with the timeout elapsed, the
\* breaker is written to HalfOpen under the write lock.  State then returns,
\* and Call rejects or goes on to fn.
StateEnd(c) ==
    /\ cbLocal[c].pc = "read"
    /\ LET l == cbLocal[c]
           toHalfOpen == l.state = "OPEN"
                         /\ TimeoutElapsed(l.lastFailureTime, now, timeout)
           result == IF toHalfOpen THEN "HALF_OPEN" ELSE l.state
           post == IF toHalfOpen THEN ToHalfOpen(cb) ELSE cb
           reject == l.api = "Call" /\ Rejects(result)
       IN /\ cb' = post
          /\ track' = IF toHalfOpen THEN TrackHalfOpen(track) ELSE track
          /\ cbLast' = CBStep(l.api,
                              IF toHalfOpen THEN "ToHalfOpen"
                              ELSE IF reject THEN "Reject" ELSE "Pass",
                              cb, post, result)
          /\ cbLocal' = [cbLocal EXCEPT ![c] =
                IF l.api = "Call" /\ ~reject
                THEN [l EXCEPT !.pc = "fn", !.state = result]
                ELSE CBLocalIdle]
    /\ UNCHANGED <<failureThreshold, successThreshold, timeout, now>>
    /\ UNCHANGED <<execVars, retryVars, sideVars>>

\* Call, after State: fn runs, and its outcome is recorded.
CallFn(c) ==
    /\ cbLocal[c].pc = "fn"
    /\ cb.failures < MaxFailures
    /\ \E ok \in BOOLEAN :
         LET post == IF ok THEN RecordSuccess(cb, successThreshold)
                     ELSE RecordFailure(cb, failureThreshold, now)
         IN /\ cb' = post
            /\ track' = IF ok THEN TrackSuccess(track, cb) ELSE TrackFailure(track, cb)
            /\ cbLast' = CBStep("Call", IF ok THEN "RecordSuccess" ELSE "RecordFailure",
                                cb, post, cbLocal[c].state)
    /\ cbLocal' = [cbLocal EXCEPT ![c] = CBLocalIdle]
    /\ UNCHANGED <<failureThreshold, successThreshold, timeout, now>>
    /\ UNCHANGED <<execVars, retryVars, sideVars>>

\* A caller calls RecordSuccess.
DoRecordSuccess(c) ==
    /\ cbLocal[c].pc = "idle"
    /\ cb' = RecordSuccess(cb, successThreshold)
    /\ track' = TrackSuccess(track, cb)
    /\ cbLast' = CBStep("RecordSuccess", "RecordSuccess", cb, cb', "")
    /\ UNCHANGED <<failureThreshold, successThreshold, timeout, now, cbLocal>>
    /\ UNCHANGED <<execVars, retryVars, sideVars>>

\* A caller calls RecordFailure.
DoRecordFailure(c) ==
    /\ cbLocal[c].pc = "idle"
    /\ cb.failures < MaxFailures
    /\ cb' = RecordFailure(cb, failureThreshold, now)
    /\ track' = TrackFailure(track, cb)
    /\ cbLast' = CBStep("RecordFailure", "RecordFailure", cb, cb', "")
    /\ UNCHANGED <<failureThreshold, successThreshold, timeout, now, cbLocal>>
    /\ UNCHANGED <<execVars, retryVars, sideVars>>

\* A caller calls Reset.
DoReset(c) ==
    /\ cbLocal[c].pc = "idle"
    /\ cb' = Reset(cb)
    /\ track' = TrackReset(track)
    /\ cbLast' = CBStep("Reset", "Reset", cb, cb', "")
    /\ UNCHANGED <<failureThreshold, successThreshold, timeout, now, cbLocal>>
    /\ UNCHANGED <<execVars, retryVars, sideVars>>

\* Time passes.
Tick ==
    /\ now < MaxClock
    /\ now' = now + 1
    /\ UNCHANGED <<cb, failureThreshold, successThreshold, timeout, cbLocal, cbLast, track>>
    /\ UNCHANGED <<execVars, retryVars, sideVars>>

\* The steps of one caller on the breaker.
BreakerStep(c) ==
    \/ StateBegin(c)
    \/ CallBegin(c)
    \/ StateEnd(c)
    \/ CallFn(c)
    \/ DoRecordSuccess(c)
    \/ DoRecordFailure(c)
    \/ DoReset(c)

(***************************************************************************)
(* TransactionSigner.WaitForConfirmations.                                 *)
(***************************************************************************)
\* The polls of one call are followed up to MaxPolls; block numbers up to MaxBlock.
MaxPolls == 3
MaxBlock == 3

RequiredConfirmations == {1, 2}
ReceiptBlocks == {1, 2}
BlockNumbers == 0..MaxBlock

TimeoutWaitingText == "timeout waiting for confirmations"

\* No call of WaitForConfirmations.
WFIdle ==
    [pc |-> "idle", required |-> 0, deadlinePassed |-> FALSE, cancelled |-> FALSE,
     entryDone |-> FALSE, receiptBlock |-> <<>>, current |-> <<>>,
     confirmations |-> <<>>, polls |-> 0, last |-> "", lastDone |-> FALSE,
     result |-> <<>>]

\* ctx.Done() is ready: the deadline of context.WithTimeout has passed, or the
\* context of the caller is cancelled.
CtxDone(w) == w.deadlinePassed \/ w.cancelled

\* The confirmation count, counting one block too many.
ConfirmationsOneTooMany(currentBlockNum, receiptBlockNumber) ==
    currentBlockNum - receiptBlockNumber + 2
\* confirmations := int(currentBlockNum) - int(receipt.BlockNumber.Uint64()) + 1
Confirmations(currentBlockNum, receiptBlockNumber) ==
    currentBlockNum - receiptBlockNumber + 1

\* A poll that could not confirm ends the call with an error.
ContinueFailing(w, outcome) ==
    [w EXCEPT !.pc = "returned", !.last = outcome, !.lastDone = CtxDone(w),
              !.result = <<[receipt |-> <<>>, err |-> "error"]>>]
\* continue: back to the select, where a new timer is made.
Continue(w, outcome) ==
    [w EXCEPT !.pc = "select", !.last = outcome, !.lastDone = CtxDone(w),
              !.entryDone = CtxDone(w)]

\* The call begins: the loop is entered and the select waits.
WaitBegin ==
    /\ wf.pc = "idle"
    /\ \E n \in RequiredConfirmations :
         wf' = [wf EXCEPT !.pc = "select", !.required = n, !.entryDone = CtxDone(wf)]
    /\ UNCHANGED <<execVars, retryVars, cbVars, pm, cache, rt>>

\* case <-ctx.Done(): the call returns the timeout error.
WaitCtxDone ==
    /\ wf.pc = "select"
    /\ CtxDone(wf)
    /\ wf' = [wf EXCEPT !.pc = "returned",
                        !.result = <<[receipt |-> <<>>, err |-> TimeoutWaitingText]>>]
    /\ UNCHANGED <<execVars, retryVars, cbVars, pm, cache, rt>>

\* case <-time.After(s.pollInterval): the timer made at this select has fired,
\* which takes a select that was entered before ctx was done.
WaitTick ==
    /\ wf.pc = "select"
    /\ ~wf.entryDone
    /\ wf.polls < MaxPolls
    /\ wf' = [wf EXCEPT !.pc = "receipt", !.polls = wf.polls + 1,
                        !.receiptBlock = <<>>, !.current = <<>>,
                        !.confirmations = <<>>]
    /\ UNCHANGED <<execVars, retryVars, cbVars, pm, cache, rt>>

\* s.client.TransactionReceipt: the receipt, or an error and the next tick.
WaitReceipt ==
    /\ wf.pc = "receipt"
    /\ \/ \E b \in ReceiptBlocks :
            wf' = [wf EXCEPT !.pc = "blockNumber", !.receiptBlock = <<b>>]
       \/ wf' = Continue(wf, "receiptError")
    /\ UNCHANGED <<execVars, retryVars, cbVars, pm, cache, rt>>

\* s.client.BlockNumber, the count and the test against requiredConfirmations.
WaitBlockNumber ==
    /\ wf.pc = "blockNumber"
    /\ \/ \E c \in BlockNumbers :
            LET confirmations == Confirmations(c, wf.receiptBlock[1])
                w == [wf EXCEPT !.current = <<c>>, !.confirmations = <<confirmations>>]
            IN wf' = IF confirmations >= wf.required
                     THEN [w EXCEPT !.pc = "returned", !.last = "confirmed",
                                    !.lastDone = CtxDone(wf),
                                    !.result = <<[receipt |-> wf.receiptBlock,
                                                  err |-> ""]>>]
                     ELSE Continue(w, "insufficient")
       \/ wf' = Continue(wf, "blockNumberError")
    /\ UNCHANGED <<execVars, retryVars, cbVars, pm, cache, rt>>

\* The deadline set by context.WithTimeout(ctx, s.timeout) passes.
WaitDeadline ==
    /\ wf.pc \notin {"idle", "returned"}
    /\ ~wf.deadlinePassed
    /\ wf' = [wf EXCEPT !.deadlinePassed = TRUE]
    /\ UNCHANGED <<execVars, retryVars, cbVars, pm, cache, rt>>

\* The context of the caller is cancelled.
WaitCancel ==
    /\ wf.pc # "returned"
    /\ ~wf.cancelled
    /\ wf' = [wf EXCEPT !.cancelled = TRUE]
    /\ UNCHANGED <<execVars, retryVars, cbVars, pm, cache, rt>>

\* The steps of the goroutine in WaitForConfirmations.
WaitStep == WaitCtxDone \/ WaitTick \/ WaitReceipt \/ WaitBlockNumber

(***************************************************************************)
(* A Transaction taken through its setters, saved and read back.           *)
(***************************************************************************)
\* The setters applied to one entity before it is saved.
MaxMarks == 2

RoundTripRequests ==
    {Request(OpA, "ETHEREUM", op, AddrFrom, AddrTo, "key-1") :
        op \in {"TRANSFER", "GET_BALANCE"}}
RoundTripBlocks == {0, 5}
RoundTripErrors == {"failed to get balance"}

RTIdle == [pc |-> "idle", tx |-> <<>>, marks |-> 0, readBack |-> <<>>]

\* The entities one setter call makes of t.
Marked(t) ==
    {MarkAsProcessing(t), MarkAsConfirmed(t), MarkAsSuccess(t, <<>>, 0, 0)}
    \cup {MarkAsSuccess(t, NewTransactionHash(SubmittedHash).hash, b, 21000) :
             b \in RoundTripBlocks}
    \cup {MarkAsFailed(t, m) : m \in RoundTripErrors}

\* NewEVMTransaction: the entity in Pending.
RTNew ==
    /\ rt.pc = "idle"
    /\ \E q \in RoundTripRequests :
         rt' = [rt EXCEPT !.pc = "entity",
                  !.tx = <<NewEVMTransaction(q.OperationID, q.ChainType,
                              q.OperationType, q.FromAddress, q.ToAddress,
                              q.IdempotencyKey)>>]
    /\ UNCHANGED <<execVars, retryVars, cbVars, wf, pm, cache>>

\* One of the MarkAs... setters is called on the entity.
RTMark ==
    /\ rt.pc = "entity"
    /\ rt.marks < MaxMarks
    /\ \E t \in Marked(rt.tx[1]) :
         rt' = [rt EXCEPT !.tx = <<t>>, !.marks = rt.marks + 1]
    /\ UNCHANGED <<execVars, retryVars, cbVars, wf, pm, cache>>

\* Save on a repository that answers.
RTSave ==
    /\ rt.pc = "entity"
    /\ table' = PutItem(table, rt.tx[1])
    /\ rt' = [rt EXCEPT !.pc = "saved"]
    /\ UNCHANGED <<signerConfigured, pc, req, transaction, txHashStr, pendingErr,
                   calls, startedAt, returns, started>>
    /\ UNCHANGED <<retryVars, cbVars, wf, pm, cache>>

\* GetByOperationID with the operation id of the entity.
RTRead ==
    /\ rt.pc = "saved"
    /\ rt' = [rt EXCEPT !.pc = "read",
                        !.readBack = <<GetByOperationID(table, rt.tx[1].operationID)>>]
    /\ UNCHANGED <<execVars, retryVars, cbVars, wf, pm, cache>>

(***************************************************************************)
(* processMessage of the Lambda handler.                                   *)
(***************************************************************************)
\* The SQS records handed to processMessage in one run.
MaxMessages == 2

\* record.ReceiptHandle: every delivery of a message has a handle of its own.
ReceiptHandle(n) == <<"rh", n>>

\* record.Body: text that is not JSON, or the JSON of a job.
NotJSON == [json |-> FALSE, job |-> NoRequest]
MessageBodies ==
    {NotJSON}
    \cup {[json |-> TRUE, job |-> q] :
            q \in {Request(OpA, "ETHEREUM", "GET_BALANCE", AddrFrom, AddrTo, "key-1"),
                   Request(OpA, "ETHEREUM", "GET_NONCE", AddrFrom, AddrTo, "key-1"),
                   Request(OpA, "ETHEREUM", "TRANSFER", AddrFrom, AddrTo, "key-1"),
                   Request(OpA, "ETHEREUM", "TRANSFER", AddrFrom, AddrBad, "key-1")}}

UnmarshalErrorText == <<"invalid character">>
DeleteErrorText == <<"failed to delete message">>

PMIdle ==
    [pc |-> "idle", body |-> NotJSON, handle |-> <<>>, executed |-> FALSE,
     execErr |-> NilError, deletes |-> <<>>, done |-> <<>>]

\* processMessage returns result: the record of the call is kept.
PMReturn(p, result) ==
    [p EXCEPT !.pc = "returned",
              !.done = Append(p.done,
                  [body |-> p.body, handle |-> p.handle, executed |-> p.executed,
                   execErr |-> p.execErr, deletes |-> p.deletes,
                   result |-> result])]

\* After Execute the message is deleted whatever Execute returned.
AfterExecuteAlwaysDeleting(p, err) == [p EXCEPT !.pc = "delete"]
\* After Execute: its error is returned, or the message is deleted.
AfterExecute(p, err) ==
    IF err # NilError THEN PMReturn(p, err) ELSE [p EXCEPT !.pc = "delete"]

\* handler calls processMessage on a record.
PMStart ==
    /\ pm.pc \in {"idle", "returned"}
    /\ Len(pm.done) < MaxMessages
    /\ \E b \in MessageBodies :
         pm' = [pm EXCEPT !.pc = "parse", !.body = b,
                          !.handle = ReceiptHandle(Len(pm.done) + 1),
                          !.executed = FALSE, !.execErr = NilError,
                          !.deletes = <<>>]
    /\ UNCHANGED <<execVars, retryVars, cbVars, wf, cache, rt>>

\* json.Unmarshal of the body: its error is returned.
PMParse ==
    /\ pm.pc = "parse"
    /\ pm' = IF pm.body.json THEN [pm EXCEPT !.pc = "execute"]
             ELSE PMReturn(pm, UnmarshalErrorText)
    /\ UNCHANGED <<execVars, retryVars, cbVars, wf, cache, rt>>

\* executeUseCase.Execute is called with the job of the body.
PMExecuteBegin ==
    /\ pm.pc = "execute"
    /\ ExecuteBegin("w1", pm.body.job)
    /\ pm' = [pm EXCEPT !.pc = "executing", !.executed = TRUE]
    /\ UNCHANGED <<retryVars, cbVars, wf, cache, rt>>

\* Execute has returned.
PMExecuteEnd ==
    /\ pm.pc = "executing"
    /\ pc["w1"] = "returned"
    /\ LET e == returns[Len(returns)].err
           err == IF e = <<>> THEN NilError ELSE AppErrorText(e[1])
       IN pm' = AfterExecute([pm EXCEPT !.execErr = err], err)
    /\ UNCHANGED <<execVars, retryVars, cbVars, wf, cache, rt>>

\* sqsConsumer.DeleteMessage with the receipt handle of the record.
PMDelete ==
    /\ pm.pc = "delete"
    /\ \E ok \in BOOLEAN :
         pm' = PMReturn([pm EXCEPT !.deletes =
                            Append(pm.deletes, [handle |-> pm.handle, ok |-> ok])],
                        IF ok THEN NilError ELSE DeleteErrorText)
    /\ UNCHANGED <<execVars, retryVars, cbVars, wf, cache, rt>>

(***************************************************************************)
(* RPCCache.                                                               *)
(***************************************************************************)
\* The clock of the cache stops at MaxCacheClock.
MaxCacheClock == 3

CacheKeys == {"key1", "key2"}
CacheValues == {"value1"}
CacheTTLs == {1}
CacheMaxSizes == {1, 2}

\* NewRPCCache: no entries.
NewRPCCache(ttl, maxSize) ==
    [entries |-> [k \in CacheKeys |-> <<>>], ttl |-> ttl, maxSize |-> maxSize,
     now |-> 0,
     last |-> [op |-> "", key |-> "", ok |-> FALSE, present |-> FALSE,
               allExpired |-> FALSE]]

CacheIdle == NewRPCCache(1, 1)

\* time.Now().After(entry.ExpiresAt)
Expired(entry, t) == t > entry.ExpiresAt

\* len(c.entries)
Size(entries) == Cardinality({k \in CacheKeys : entries[k] # <<>>})

\* evictExpired: the entries that have expired are deleted.
evictExpired(entries, t) ==
    [k \in CacheKeys |->
        IF entries[k] # <<>> /\ Expired(entries[k][1], t) THEN <<>> ELSE entries[k]]

\* What is kept about a call: the method, its key, what it returned, whether
\* the key had an entry and whether every entry had expired when it was made.
CacheCall(c, op, key, ok) ==
    [op |-> op, key |-> key, ok |-> ok,
     present |-> key \in CacheKeys /\ c.entries[key] # <<>>,
     allExpired |-> \A k \in CacheKeys :
                       c.entries[k] # <<>> => Expired(c.entries[k][1], c.now)]

\* Get: a hit if the key has an entry that has not expired; the entries are
\* only read.
CacheGet ==
    /\ \E key \in CacheKeys :
         LET hit == cache.entries[key] # <<>>
                    /\ ~Expired(cache.entries[key][1], cache.now)
         IN cache' = [cache EXCEPT !.last = CacheCall(cache, "Get", key, hit)]
    /\ UNCHANGED <<execVars, retryVars, cbVars, wf, pm, rt>>

\* Set: a full cache first drops its expired entries; the entry is stored.
CacheSet ==
    /\ \E key \in CacheKeys, value \in CacheValues :
         LET kept == IF Size(cache.entries) >= cache.maxSize
                     THEN evictExpired(cache.entries, cache.now)
                     ELSE cache.entries
         IN cache' = [cache EXCEPT
                !.entries = [kept EXCEPT ![key] =
                    <<[Value |-> value, ExpiresAt |-> cache.now + cache.ttl]>>],
                !.last = CacheCall(cache, "Set", key, TRUE)]
    /\ UNCHANGED <<execVars, retryVars, cbVars, wf, pm, rt>>

\* Delete of a key.
CacheDelete ==
    /\ \E key \in CacheKeys :
         cache' = [cache EXCEPT !.entries = [cache.entries EXCEPT ![key] = <<>>],
                                !.last = CacheCall(cache, "Delete", key, TRUE)]
    /\ UNCHANGED <<execVars, retryVars, cbVars, wf, pm, rt>>

\* Clear.
CacheClear ==
    /\ cache' = [cache EXCEPT !.entries = [k \in CacheKeys |-> <<>>],
                              !.last = CacheCall(cache, "Clear", "", TRUE)]
    /\ UNCHANGED <<execVars, retryVars, cbVars, wf, pm, rt>>

\* Time passes.
CacheTick ==
    /\ cache.now < MaxCacheClock
    /\ cache' = [cache EXCEPT !.now = cache.now + 1]
    /\ UNCHANGED <<execVars, retryVars, cbVars, wf, pm, rt>>

\* A cache just made by NewRPCCache.
InitCache ==
    /\ ExecInit /\ signerConfigured /\ maxRetries = 0 /\ RetryIdle /\ CBIdle
    /\ wf = WFIdle /\ pm = PMIdle /\ rt = RTIdle
    /\ cache \in {NewRPCCache(d, n) : d \in CacheTTLs, n \in CacheMaxSizes}

NextCache == CacheGet \/ CacheSet \/ CacheDelete \/ CacheClear \/ CacheTick

SpecCache == InitCache /\ [][NextCache]_vars

\* None of the side components in use.
SideIdle == wf = WFIdle /\ pm = PMIdle /\ cache = CacheIdle /\ rt = RTIdle

(***************************************************************************)
(* Specifications.                                                         *)
(***************************************************************************)
\* The use case with an empty repository; no RetryManager in use.
Init == ExecInit /\ maxRetries = 0 /\ RetryIdle /\ CBIdle /\ SideIdle

\* Sequential use: one worker makes one Execute call after the other.
Next == Call("w1") \/ ExecuteStep("w1")

Spec == Init /\ [][Next]_vars

\* Concurrent use: the workers' calls interleave at every collaborator call.
NextConcurrent == \E w \in Workers : Call(w) \/ ExecuteStep(w)

SpecConcurrent == Init /\ [][NextConcurrent]_vars

\* ProcessWithRetry around an arbitrary processor.
InitRetry == ExecInit /\ signerConfigured /\ RetryInit /\ CBIdle /\ SideIdle

RetryStep ==
    \/ RMStart \/ RMLoop \/ RMAfter \/ RMSendDLQ \/ RMBackoff \/ Cancel

NextRetry == RetryStep \/ ProcessorGeneric

SpecRetry == InitRetry /\ [][NextRetry]_vars

\* ProcessWithRetry around Execute.
InitRetryExec == ExecInit /\ RetryInit /\ CBIdle /\ SideIdle

NextRetryExec ==
    \/ RetryStep
    \/ ProcessorExecuteBegin
    \/ ProcessorExecuteEnd
    \/ ExecuteStep("w1")

SpecRetryExec == InitRetryExec /\ [][NextRetryExec]_vars

\* The context of the job is cancelled while Execute runs.
CancelJob ==
    /\ pc["w1"] \notin {"idle", "returned"}
    /\ ~ctxCancelled
    /\ ctxCancelled' = TRUE
    /\ UNCHANGED <<maxRetries, rmPc, message, attempt, backoff, procErrs, sleeps,
                   dlqCalls, rmResult>>
    /\ UNCHANGED <<execVars, cbVars, sideVars>>

NextCancel == Call("w1") \/ ExecuteStep("w1") \/ CancelJob

SpecCancel == Init /\ [][NextCancel]_vars

\* One breaker used by one caller, one method call after the other.
InitBreaker == ExecInit /\ signerConfigured /\ maxRetries = 0 /\ RetryIdle /\ CBInit /\ SideIdle

NextBreaker == BreakerStep("c1") \/ Tick

SpecBreaker == InitBreaker /\ [][NextBreaker]_vars

\* One breaker shared by concurrent callers.
NextBreakerConcurrent == (\E c \in Callers : BreakerStep(c)) \/ Tick

SpecBreakerConcurrent == InitBreaker /\ [][NextBreakerConcurrent]_vars

\* One call of WaitForConfirmations; the goroutine is scheduled and its
\* timers fire.
InitWait ==
    /\ ExecInit /\ signerConfigured /\ maxRetries = 0 /\ RetryIdle /\ CBIdle
    /\ wf = WFIdle /\ pm = PMIdle /\ cache = CacheIdle /\ rt = RTIdle

NextWait == WaitBegin \/ WaitStep \/ WaitDeadline \/ WaitCancel

SpecWait == InitWait /\ [][NextWait]_vars /\ WF_vars(WaitStep)

\* Execute on jobs that are well-formed but for the idempotency key.
KeyedRequests ==
    {Request(OpA, "ETHEREUM", op, AddrFrom, AddrTo, key) :
        op \in {"TRANSFER", "GET_BALANCE", "GET_NONCE"}, key \in {"", "key-1"}}

CallKeyed(w) ==
    /\ pc[w] \in {"idle", "returned"}
    /\ started < MaxExecutions
    /\ \E r \in KeyedRequests : ExecuteBegin(w, r)
    /\ UNCHANGED <<retryVars, cbVars, sideVars>>

NextKeyed == CallKeyed("w1") \/ ExecuteStep("w1")

SpecKeyed == Init /\ [][NextKeyed]_vars

\* Execute on jobs of every read operation kind, and on a transfer, each job
\* with an idempotency key of its own.
KindRequests ==
    {Request(OpA, "ETHEREUM", op, AddrFrom, AddrTo, op) :
        op \in ReadOperationTypes \cup {"TRANSFER"}}

CallKind(w) ==
    /\ pc[w] \in {"idle", "returned"}
    /\ started < MaxExecutions
    /\ \E r \in KindRequests : ExecuteBegin(w, r)
    /\ UNCHANGED <<retryVars, cbVars, sideVars>>

NextKinds == CallKind("w1") \/ ExecuteStep("w1")

SpecKinds == Init /\ [][NextKinds]_vars

\* ProcessWithRetry with enough retries for the delay to reach its maximum.
MaxBackoffRetries == 7

InitBackoff ==
    /\ ExecInit /\ signerConfigured
    /\ maxRetries = MaxBackoffRetries /\ RetryIdle
    /\ CBIdle /\ SideIdle

SpecBackoff == InitBackoff /\ [][NextRetry]_vars

\* processMessage on the records of one event, Execute being the use case.
NextProcess ==
    \/ PMStart
    \/ PMParse
    \/ PMExecuteBegin
    \/ ExecuteStep("w1")
    \/ PMExecuteEnd
    \/ PMDelete

SpecProcess == Init /\ [][NextProcess]_vars

\* An entity in any status reachable by its setters, saved and read back.
NextRoundTrip == RTNew \/ RTMark \/ RTSave \/ RTRead

SpecRoundTrip == InitWait /\ [][NextRoundTrip]_vars

(***************************************************************************)
(* Properties of Execute and of ProcessWithRetry.                          *)
(***************************************************************************)

\* The calls of Execute that write to the repository or reach the chain.
EffectOps ==
    {"Save", "GetNonce", "GetGasPrice", "GetBalance",
     "SignAndSendTransaction", "WaitForConfirmations"}

\* The return r is the answer to a call whose idempotency lookup found a record.
AnsweredFromRepository(r) ==
    /\ Len(r.calls) >= 1
    /\ r.calls[1].op = "GetByIdempotencyKey"
    /\ r.calls[1].err = ""
    /\ r.calls[1].tx # <<>>

\* The job q has a malformed field.
Malformed(q) ==
    \/ q.ChainType \notin ChainTypes
    \/ q.OperationType \notin (WriteOperationTypes \cup ReadOperationTypes)
    \/ ~isValidOperationID(q.OperationID)
    \/ ~isValidEVMAddress(q.FromAddress)
    \/ ~isValidEVMAddress(q.ToAddress)

\* The call that returned r built a Transaction for a key the lookup did not find.
CreatedForNewKey(r) ==
    /\ Len(r.calls) >= 2
    /\ r.calls[1].err = "transaction not found"
    /\ r.calls[2].op = "Save"

TerminalStatuses == {"SUCCESS", "FAILED"}

\* C1: when the idempotency lookup finds a record, Execute returns a nil error
\* and the response built from that record (same operation id, chain, status,
\* hash, block, gas and message), and makes no Save, RPC or signer call.
C1_IdempotentHitAnswersFromRecord ==
    \A i \in DOMAIN returns :
        LET r == returns[i] IN
        AnsweredFromRepository(r) =>
            /\ r.err = <<>>
            /\ r.resp # <<>>
            /\ r.calls[1].tx[1].idempotencyKey = r.req.IdempotencyKey
            /\ r.resp[1].OperationID = r.calls[1].tx[1].operationID
            /\ r.resp[1].ChainType = r.calls[1].tx[1].chainType
            /\ r.resp[1].Status = r.calls[1].tx[1].status
            /\ r.resp[1].TransactionHash = r.calls[1].tx[1].txHash
            /\ r.resp[1].BlockNumber = r.calls[1].tx[1].blockNumber
            /\ r.resp[1].GasUsed = r.calls[1].tx[1].gasUsed
            /\ r.resp[1].ErrorMessage = r.calls[1].tx[1].errorMessage
            /\ \A k \in DOMAIN r.calls : r.calls[k].op \notin EffectOps

\* A TRANSFER job was answered from the record of an earlier submission.
C1_Witness ==
    \E i \in DOMAIN returns :
        /\ AnsweredFromRepository(returns[i])
        /\ returns[i].req.OperationType = "TRANSFER"
        /\ returns[i].resp # <<>>
        /\ returns[i].resp[1].Status = "SUCCESS"
        /\ returns[i].resp[1].TransactionHash = SubmittedHash

\* The SignAndSendTransaction calls made so far on behalf of key, by the calls
\* of Execute that returned and by those in progress.
Submissions(key) ==
    UNION {{<<i, k>> : k \in {m \in DOMAIN returns[i].calls :
                                returns[i].calls[m].op = "SignAndSendTransaction"}} :
           i \in {j \in DOMAIN returns : returns[j].req.IdempotencyKey = key}}
    \cup
    UNION {{<<w, k>> : k \in {m \in DOMAIN calls[w] :
                                calls[w][m].op = "SignAndSendTransaction"}} :
           w \in {v \in Workers : /\ pc[v] \notin {"idle", "returned"}
                                  /\ req[v].IdempotencyKey = key}}

\* C2: over all Execute calls that carry the same idempotency key, at most one
\* SignAndSendTransaction call is made in total.
C2_AtMostOneSubmissionPerKey ==
    \A key \in IdempotencyKeys : Cardinality(Submissions(key)) <= 1

\* C3: of two Execute calls with the same idempotency key, the second started
\* after the first returned successfully, both responses carry the same status
\* and the same hash.
C3_SequentialResponsesAgree ==
    \A i, j \in DOMAIN returns :
        ( /\ i < j
          /\ returns[j].startedAt >= i
          /\ returns[i].req.IdempotencyKey = returns[j].req.IdempotencyKey
          /\ ~Malformed(returns[i].req) /\ ~Malformed(returns[j].req)
          /\ returns[i].err = <<>>
          /\ returns[j].err = <<>> )
        => /\ returns[j].resp[1].Status = returns[i].resp[1].Status
           /\ returns[j].resp[1].TransactionHash = returns[i].resp[1].TransactionHash

\* Every repository call of the Execute calls that returned was answered: no
\* Save failed and no idempotency query failed.
RepositoryHealthy ==
    \A i \in DOMAIN returns : \A k \in DOMAIN returns[i].calls :
        LET c == returns[i].calls[k] IN
        /\ c.op = "Save" => c.ok
        /\ c.op = "GetByIdempotencyKey" => c.err \in {"", "transaction not found"}

\* Every GetNonce call of the Execute calls that returned failed.
EveryGetNonceFailed ==
    \A i \in DOMAIN returns : \A k \in DOMAIN returns[i].calls :
        returns[i].calls[k].op = "GetNonce" => ~returns[i].calls[k].ok

\* C4: ProcessWithRetry around Execute, for a write job with a first-seen key
\* whose GetNonce fails on every call: each of the maxRetries+1 attempts returns
\* an RPC_FAILED error, and the job is then delivered to the dead-letter sink
\* with a reason that contains "failed to get nonce".
C4_NonceFailureExhaustsRetries ==
    ( /\ rmPc = "done"
      /\ IsWriteOperation(message.OperationType)
      /\ message.ChainType \in RpcClients
      /\ signerConfigured
      /\ ~ctxCancelled
      /\ RepositoryHealthy
      /\ EveryGetNonceFailed )
    => /\ Len(procErrs) = maxRetries + 1
       /\ \A a \in DOMAIN procErrs :
             procErrs[a] # NilError /\ procErrs[a][1] = ErrRPCFailedCode
       /\ Len(dlqCalls) = 1
       /\ \E k \in DOMAIN dlqCalls[1].reason :
             dlqCalls[1].reason[k] = "failed to get nonce"

\* The processor failed on every invocation so far.
EveryAttemptFailed == \A a \in DOMAIN procErrs : procErrs[a] # NilError

\* C5: when the processor fails on every invocation and the context is never
\* cancelled, ProcessWithRetry invokes it exactly maxRetries+1 times, calls the
\* dead-letter sink exactly once and only after the last attempt, and returns a
\* non-nil error.
C5_ExhaustedRetriesReachDLQOnce ==
    (EveryAttemptFailed /\ ~ctxCancelled) =>
        /\ Len(procErrs) <= maxRetries + 1
        /\ Len(dlqCalls) <= 1
        /\ Len(dlqCalls) = 1 => Len(procErrs) = maxRetries + 1
        /\ rmPc = "done" =>
              /\ Len(procErrs) = maxRetries + 1
              /\ Len(dlqCalls) = 1
              /\ dlqCalls[1].message = message
              /\ rmResult # <<>>
              /\ rmResult[1] # NilError

\* ProcessWithRetry returned after retries, every attempt having failed.
C5_Witness ==
    /\ rmPc = "done"
    /\ maxRetries >= 1
    /\ EveryAttemptFailed
    /\ ~ctxCancelled
    /\ Len(procErrs) = maxRetries + 1
    /\ Len(dlqCalls) = 1
    /\ Len(sleeps) = maxRetries

\* C6: when the dead-letter delivery fails after the retries are exhausted,
\* ProcessWithRetry returns at once an error that wraps the sink's error
\* ("failed to send to DLQ: ..."), never nil.
C6_DLQFailureIsReturned ==
    (Len(dlqCalls) >= 1 /\ ~dlqCalls[Len(dlqCalls)].ok) =>
        /\ rmPc = "done"
        /\ rmResult # <<>>
        /\ rmResult[1] # NilError
        /\ rmResult[1][1] = "failed to send to DLQ: "
        /\ SubSeq(rmResult[1], 2, Len(rmResult[1])) \in DLQErrors

\* The sink refused the job and ProcessWithRetry reported it.
C6_Witness ==
    /\ rmPc = "done"
    /\ Len(dlqCalls) = 1
    /\ ~dlqCalls[1].ok
    /\ rmResult[1][1] = "failed to send to DLQ: "

\* C7: for a job with a malformed chain type, operation kind, operation id or
\* address, Execute returns an error and no response, and makes no Save, RPC
\* or signer call.
C7_MalformedJobHasNoEffect ==
    \A i \in DOMAIN returns :
        LET r == returns[i] IN
        Malformed(r.req) =>
            /\ r.err # <<>>
            /\ r.resp = <<>>
            /\ \A k \in DOMAIN r.calls : r.calls[k].op \notin EffectOps

\* A job whose only malformed field is the destination address was rejected.
C7_Witness ==
    \E i \in DOMAIN returns :
        /\ ~isValidEVMAddress(returns[i].req.ToAddress)
        /\ isValidEVMAddress(returns[i].req.FromAddress)
        /\ returns[i].req.ChainType \in ChainTypes
        /\ returns[i].err # <<>>
        /\ returns[i].calls = <<>>

C9_StoredRecordIsTerminal ==
    \A i \in DOMAIN returns :
        LET r == returns[i] IN
        (CreatedForNewKey(r) /\ r.stored # <<>>) =>
            r.stored[1].Status \in TerminalStatuses

\* C10: when Execute returns an error after the Transaction was created, the
\* last thing it did was a Save of the Transaction marked Failed with a
\* non-empty error message.
C10_ErrorPathsSaveFailed ==
    \A i \in DOMAIN returns :
        LET r == returns[i] IN
        (Len(r.calls) >= 2 /\ r.calls[2].op = "Save" /\ r.err # <<>>) =>
            LET last == r.calls[Len(r.calls)] IN
            /\ last.op = "Save"
            /\ last.tx # <<>>
            /\ last.tx[1].status = "FAILED"
            /\ last.tx[1].errorMessage # ""

\* C11: once SignAndSendTransaction has returned a hash, every record that
\* Execute stores afterwards for the Transaction carries that hash, also when
\* the confirmation wait fails and the Transaction is stored as Failed.
C11_StoredRecordKeepsSubmittedHash ==
    \A i \in DOMAIN returns :
        \A m, k \in DOMAIN returns[i].calls :
            ( /\ m < k
              /\ returns[i].calls[m].op = "SignAndSendTransaction"
              /\ returns[i].calls[m].ok
              /\ returns[i].calls[k].op = "Save"
              /\ returns[i].calls[k].ok )
            => returns[i].calls[k].tx[1].txHash = SubmittedHash

\* The statuses after which a record does not change any more.
FinalStatuses == {"SUCCESS", "CONFIRMED", "FAILED"}

\* C13: the status stored under an operation id only moves forward: once a
\* call has left a Success, Confirmed or Failed record there, no later call
\* stores a Processing or Pending record under that operation id.
C13_StoredStatusMovesForward ==
    \A i, j \in DOMAIN returns :
        ( /\ i < j
          /\ returns[j].startedAt >= i
          /\ returns[i].req.OperationID = returns[j].req.OperationID
          /\ returns[i].stored # <<>>
          /\ returns[i].stored[1].Status \in FinalStatuses )
        => \A k \in DOMAIN returns[j].calls :
              (returns[j].calls[k].op = "Save" /\ returns[j].calls[k].ok)
              => returns[j].calls[k].tx[1].status \notin {"PENDING", "PROCESSING"}

\* The entity behind the outcome of the call that returned r: the record found
\* by the idempotency lookup, or the entity of the last call made.
UnderlyingTx(r) ==
    IF AnsweredFromRepository(r) THEN r.calls[1].tx ELSE r.calls[Len(r.calls)].tx

\* C14 as stated: every Transaction in Success or Confirmed, in a response of
\* Execute, in a Save or in the repository, carries a non-empty hash.
C14_SuccessCarriesHash ==
    \A i \in DOMAIN returns :
        LET r == returns[i] IN
        /\ (r.resp # <<>> /\ r.resp[1].Status \in {"SUCCESS", "CONFIRMED"})
              => r.resp[1].TransactionHash # <<>>
        /\ \A k \in DOMAIN r.calls :
              (r.calls[k].tx # <<>> /\ r.calls[k].tx[1].status \in {"SUCCESS", "CONFIRMED"})
              => r.calls[k].tx[1].txHash # <<>>
        /\ (r.stored # <<>> /\ r.stored[1].Status \in {"SUCCESS", "CONFIRMED"})
              => r.stored[1].TransactionHash # <<>>

\* C14: every Transaction of a write operation kind in Success or Confirmed,
\* in a response of Execute, in a Save or in the repository, carries a
\* non-empty hash (a read operation ends in Success with no hash).
C14_WriteSuccessCarriesHash ==
    \A i \in DOMAIN returns :
        LET r == returns[i] IN
        /\ ( /\ r.resp # <<>>
             /\ r.resp[1].Status \in {"SUCCESS", "CONFIRMED"}
             /\ IsWriteOperation(UnderlyingTx(r)[1].operationType) )
              => r.resp[1].TransactionHash = SubmittedHash
        /\ \A k \in DOMAIN r.calls :
              ( /\ r.calls[k].tx # <<>>
                /\ r.calls[k].tx[1].status \in {"SUCCESS", "CONFIRMED"}
                /\ IsWriteOperation(r.calls[k].tx[1].operationType) )
              => r.calls[k].tx[1].txHash = SubmittedHash
        /\ ( /\ r.stored # <<>>
             /\ r.stored[1].Status \in {"SUCCESS", "CONFIRMED"}
             /\ IsWriteOperation(r.stored[1].OperationType) )
              => r.stored[1].TransactionHash = SubmittedHash

\* A TRANSFER ended in Success with its hash stored, and a read operation
\* ended in Success with none.
C14_Witness ==
    /\ \E i \in DOMAIN returns :
          /\ returns[i].req.OperationType = "TRANSFER"
          /\ returns[i].resp # <<>>
          /\ returns[i].resp[1].Status = "SUCCESS"
          /\ returns[i].stored # <<>>
          /\ returns[i].stored[1].TransactionHash = SubmittedHash
    /\ \E j \in DOMAIN returns :
          /\ returns[j].req.OperationType \in ReadOperationTypes
          /\ returns[j].resp # <<>>
          /\ returns[j].resp[1].Status = "SUCCESS"
          /\ returns[j].resp[1].TransactionHash = <<>>

\* C15: when ProcessWithRetry has exhausted the retries of Execute and the
\* dead-letter delivery succeeded, the repository holds under the job's
\* operation id a Failed record with a non-empty error message.
C15_DeadLetteredJobHasFailedRecord ==
    (rmPc = "done" /\ Len(dlqCalls) = 1 /\ dlqCalls[1].ok) =>
        /\ StoredUnder(table, message.OperationID) # <<>>
        /\ StoredUnder(table, message.OperationID)[1].Status = "FAILED"
        /\ StoredUnder(table, message.OperationID)[1].ErrorMessage # ""

\* The calls of the write path that are handed the context of the job.
WritePathOps ==
    {"GetNonce", "GetGasPrice", "SignAndSendTransaction", "WaitForConfirmations"}

\* C12: when the context is cancelled while Execute is in the write path, the
\* same Execute call still ends with a Failed record stored for the
\* Transaction; the stored record is not left in Processing.
C12_CancelledWriteEndsFailed ==
    \A i \in DOMAIN returns :
        LET r == returns[i] IN
        ( /\ IsWriteOperation(r.req.OperationType)
          /\ \E k \in DOMAIN r.calls :
                /\ r.calls[k].op \in WritePathOps
                /\ r.calls[k].err = "context canceled" )
        => /\ r.stored # <<>>
           /\ r.stored[1].Status = "FAILED"

\* C16: in Closed the failure counter is the number of failures recorded
\* since the last success, creation, Reset or closing, and it is below
\* failureThreshold; a failure recorded in Closed opens the breaker exactly
\* when that number reaches failureThreshold, recording the time of the
\* failure, and a success recorded in Closed leaves the breaker Closed with
\* the failure counter at zero.
C16_ClosedOpensAtThreshold ==
    /\ cb.state = "CLOSED" =>
          /\ cb.failures = track.sinceSuccess
          /\ cb.failures < failureThreshold
    /\ (cbLast.step = "RecordFailure" /\ cbLast.pre.state = "CLOSED") =>
          /\ cbLast.post.state \in {"CLOSED", "OPEN"}
          /\ cbLast.post.state = "OPEN" <=> track.sinceSuccess = failureThreshold
          /\ cbLast.post.lastFailureTime # <<>>
          /\ cbLast.post.lastFailureTime[1] <= now
    /\ (cbLast.step = "RecordSuccess" /\ cbLast.pre.state = "CLOSED") =>
          /\ cbLast.post.state = "CLOSED"
          /\ cbLast.post.failures = 0

\* With failureThreshold 2, the second of two consecutive failures recorded in
\* Closed opened the breaker.
C16_Witness ==
    /\ failureThreshold = 2
    /\ cbLast.step = "RecordFailure"
    /\ cbLast.pre.state = "CLOSED"
    /\ cbLast.pre.failures = 1
    /\ cbLast.post.state = "OPEN"
    /\ track.sinceSuccess = 2

\* The steps in which the State read of a caller ends.
StateEndSteps == {"ToHalfOpen", "Reject", "Pass"}

\* The steps in which Call has run fn and records its outcome.
FnSteps == {"RecordSuccess", "RecordFailure"}

\* C17: a Call whose State read ends while the breaker is Open and the
\* timeout has not elapsed since the last recorded failure is rejected: fn
\* is not invoked, and the state, both counters and the failure time are as
\* before; fn is only ever invoked by a Call that did not find the breaker
\* Open.
C17_OpenRejectsCall ==
    /\ ( /\ cbLast.api = "Call"
         /\ cbLast.step \in StateEndSteps
         /\ cbLast.pre.state = "OPEN"
         /\ ~cbLast.elapsed )
       => /\ cbLast.step = "Reject"
          /\ cbLast.observed = "OPEN"
          /\ cbLast.post = cbLast.pre
          /\ \A c \in Callers : cbLocal[c].pc # "fn"
    /\ (cbLast.api = "Call" /\ cbLast.step \in FnSteps)
       => /\ cbLast.observed # "OPEN"
          /\ cbLast.pre.state # "OPEN"

\* A Call was rejected while the breaker was Open within the timeout.
C17_Witness ==
    /\ cbLast.api = "Call"
    /\ cbLast.step = "Reject"
    /\ cbLast.pre.state = "OPEN"
    /\ ~cbLast.elapsed
    /\ cb.state = "OPEN"

\* C18: a State read, that of Call included, which ends while the breaker is
\* Open with the timeout elapsed since the last recorded failure moves the
\* breaker to HalfOpen with the success counter at zero and returns HalfOpen;
\* in HalfOpen the success counter is the number of successes recorded since
\* then with no failure in between, and it is below successThreshold; the
\* success that makes it successThreshold moves the breaker to Closed with
\* both counters at zero, and an earlier one leaves it HalfOpen.
C18_HalfOpenThenClosed ==
    /\ ( /\ cbLast.step \in StateEndSteps
         /\ cbLast.pre.state = "OPEN"
         /\ cbLast.elapsed )
       => /\ cbLast.step = "ToHalfOpen"
          /\ cbLast.observed = "HALF_OPEN"
          /\ cbLast.post.state = "HALF_OPEN"
          /\ cbLast.post.successes = 0
    /\ cb.state = "HALF_OPEN" =>
          /\ cb.successes = track.halfOpenSuccesses
          /\ cb.successes < successThreshold
    /\ (cbLast.step = "RecordSuccess" /\ cbLast.pre.state = "HALF_OPEN") =>
          IF track.halfOpenSuccesses = successThreshold
          THEN /\ cbLast.post.state = "CLOSED"
               /\ cbLast.post.failures = 0
               /\ cbLast.post.successes = 0
          ELSE /\ cbLast.post.state = "HALF_OPEN"
               /\ track.halfOpenSuccesses < successThreshold

\* With successThreshold 2, the breaker went from Open to HalfOpen by a State
\* read and the second success in HalfOpen closed it.
C18_Witness ==
    /\ successThreshold = 2
    /\ cbLast.step = "RecordSuccess"
    /\ cbLast.pre.state = "HALF_OPEN"
    /\ cbLast.pre.successes = 1
    /\ cbLast.pre.failures > 0
    /\ cbLast.post = [cbLast.pre EXCEPT !.state = "CLOSED", !.failures = 0,
                                        !.successes = 0]
    /\ track.halfOpenSuccesses = 2

\* C19: a failure recorded in HalfOpen moves the breaker to Open only if
\* failureThreshold failures have been recorded since the breaker entered
\* HalfOpen.
C19_HalfOpenFailureCountsFromEntry ==
    ( /\ cbLast.step = "RecordFailure"
      /\ cbLast.pre.state = "HALF_OPEN"
      /\ cbLast.post.state = "OPEN" )
    => track.halfOpenFailures >= failureThreshold

\* C20: under concurrent callers the breaker enters HalfOpen only from Open:
\* no step takes a breaker that is Closed to HalfOpen.
C20_HalfOpenOnlyFromOpen ==
    (cbLast.post.state = "HALF_OPEN" /\ cbLast.pre.state # "HALF_OPEN")
    => cbLast.pre.state = "OPEN"

UnconfirmedPolls == {"receiptError", "blockNumberError", "insufficient"}

\* What C22 says of every state: an error is returned only once ctx is done,
\* it is the timeout error and comes with no receipt, and without a
\* cancellation by the caller the deadline has passed; after a poll that
\* did not confirm the call is back at the select, where the next tick is
\* taken unless ctx is done.
OnlyDeadlineIsFatal ==
    /\ (wf.result # <<>> /\ wf.result[1].err # "") =>
          /\ wf.result[1] = [receipt |-> <<>>, err |-> TimeoutWaitingText]
          /\ CtxDone(wf)
          /\ ~wf.cancelled => wf.deadlinePassed
    /\ (wf.pc = "select" /\ ~CtxDone(wf)) => ~wf.entryDone
    /\ (wf.last \in UnconfirmedPolls /\ ~wf.lastDone) =>
          \/ wf.pc \in {"select", "receipt", "blockNumber"}
          \/ wf.result[1].receipt # <<>>
          \/ CtxDone(wf)

C23_CancellationIsDistinguishable ==
    ( /\ wf.result # <<>>
      /\ wf.result[1].err # ""
      /\ wf.cancelled
      /\ ~wf.deadlinePassed )
    => wf.result[1].err # TimeoutWaitingText

(***************************************************************************)
(* Properties of the repository.                                           *)
(***************************************************************************)
\* C24: a Transaction in any status, saved with Save and read back by its
\* operation id, comes back with the same status, transaction hash, block
\* number and error message.
C24_SaveThenReadIsUnchanged ==
    rt.readBack # <<>> =>
        /\ rt.readBack[1].tx # <<>>
        /\ rt.readBack[1].tx[1].status = rt.tx[1].status
        /\ rt.readBack[1].tx[1].txHash = rt.tx[1].txHash
        /\ rt.readBack[1].tx[1].blockNumber = rt.tx[1].blockNumber
        /\ rt.readBack[1].tx[1].errorMessage = rt.tx[1].errorMessage

(***************************************************************************)
(* Further properties of Execute.                                          *)
(***************************************************************************)
\* The empty idempotency key, which no fixed format of a key admits.
MalformedKeys == {""}

\* C25: Execute rejects a job whose idempotency key is malformed with a
\* validation error, before a Transaction is constructed, looked up or
\* persisted.
C25_MalformedKeyIsRejected ==
    \A i \in DOMAIN returns :
        LET r == returns[i] IN
        r.req.IdempotencyKey \in MalformedKeys =>
            /\ r.err # <<>>
            /\ r.err[1].code = ErrValidationFailedCode
            /\ r.resp = <<>>
            /\ r.calls = <<>>

(***************************************************************************)
(* Properties of processMessage.                                           *)
(***************************************************************************)
\* C26: processMessage issues DeleteMessage if and only if Execute returned
\* without error.  When the body cannot be parsed, Execute is not called,
\* nothing is deleted and the parse error is returned; when Execute fails,
\* nothing is deleted and its error is returned; after a successful Execute
\* exactly one DeleteMessage is issued, with the receipt handle of the record.
C26_DeleteIffExecuteSucceeded ==
    /\ \A i \in DOMAIN pm.done :
          LET d == pm.done[i] IN
          /\ ~d.body.json =>
                /\ ~d.executed
                /\ d.deletes = <<>>
                /\ d.result = UnmarshalErrorText
          /\ (d.executed /\ d.execErr # NilError) =>
                /\ d.deletes = <<>>
                /\ d.result = d.execErr
          /\ (d.executed /\ d.execErr = NilError) =>
                /\ Len(d.deletes) = 1
                /\ d.deletes[1].handle = d.handle
                /\ d.result = NilError <=> d.deletes[1].ok
          /\ d.body.json => d.executed
    /\ pm.deletes # <<>> => (pm.executed /\ pm.execErr = NilError)

\* One record was deleted after a successful Execute, and another was left
\* in the queue because Execute failed.
C26_Witness ==
    /\ \E i \in DOMAIN pm.done :
          /\ pm.done[i].executed
          /\ pm.done[i].execErr = NilError
          /\ pm.done[i].deletes = <<[handle |-> pm.done[i].handle, ok |-> TRUE]>>
          /\ pm.done[i].result = NilError
    /\ \E j \in DOMAIN pm.done :
          /\ pm.done[j].executed
          /\ pm.done[j].execErr # NilError
          /\ pm.done[j].deletes = <<>>

(***************************************************************************)
(* Properties of RPCCache.                                                 *)
(***************************************************************************)
\* C27: a Get on a key whose entry has expired, made when the TTL of every
\* entry has elapsed, reports a miss and leaves the cache with Size() = 0.
C27_GetEvictsExpiredEntries ==
    ( /\ cache.last.op = "Get"
      /\ cache.last.present
      /\ cache.last.allExpired )
    => /\ ~cache.last.ok
       /\ Size(cache.entries) = 0

(***************************************************************************)
(* Properties of Execute: what a nil error means, the lookup, the saves.   *)
(***************************************************************************)
\* C28: Execute returns a nil error only together with a response whose
\* status is Success or Confirmed, on a first execution and on an
\* idempotent replay alike.
C28_NilErrorOnlyWithSuccess ==
    \A i \in DOMAIN returns :
        returns[i].err = <<>> =>
            /\ returns[i].resp # <<>>
            /\ returns[i].resp[1].Status \in {"SUCCESS", "CONFIRMED"}

\* The same for the calls that were not answered from the repository.
FirstExecutionNilErrorOnlyWithSuccess ==
    \A i \in DOMAIN returns :
        (returns[i].err = <<>> /\ ~AnsweredFromRepository(returns[i])) =>
            /\ returns[i].resp # <<>>
            /\ returns[i].resp[1].Status \in {"SUCCESS", "CONFIRMED"}

\* C29: Execute writes to the repository and calls the RPC client or the
\* signer only after a lookup that established that no Transaction exists
\* under the key; a lookup that failed for another reason is followed by
\* none of these calls.
C29_ExecutesOnlyAfterNotFound ==
    \A i \in DOMAIN returns :
        (\E k \in DOMAIN returns[i].calls : returns[i].calls[k].op \in EffectOps)
        => /\ returns[i].calls[1].op = "GetByIdempotencyKey"
           /\ returns[i].calls[1].err = "transaction not found"

\* The calls of Execute to the RPC client and to the signer.
RPCOps ==
    {"GetNonce", "GetGasPrice", "GetBalance",
     "SignAndSendTransaction", "WaitForConfirmations"}

\* The positions of the calls of r whose operation is in ops.
CallsOf(r, ops) == {k \in DOMAIN r.calls : r.calls[k].op \in ops}

\* The return r ends a call for a first-seen key, on a chain with an RPC
\* client, during which every call to the repository succeeded.
FirstSeenWithWorkingRepository(r) ==
    /\ Len(r.calls) >= 1
    /\ r.calls[1].op = "GetByIdempotencyKey"
    /\ r.calls[1].err = "transaction not found"
    /\ r.req.ChainType \in RpcClients
    /\ \A k \in CallsOf(r, {"Save"}) : r.calls[k].ok

\* C30: for a first-seen key, a working repository and a configured RPC
\* client, Execute calls Save exactly twice: with the Transaction in
\* Processing before every RPC or signer call, and with the Transaction in
\* its final state (Success, or Failed on an RPC failure) after the last one.
C30_SavesProcessingThenFinal ==
    \A i \in DOMAIN returns :
        LET r == returns[i]
            n == Len(r.calls)
        IN FirstSeenWithWorkingRepository(r) =>
            /\ CallsOf(r, {"Save"}) = {2, n}
            /\ n > 2
            /\ r.calls[2].tx[1].status = "PROCESSING"
            /\ r.calls[n].tx[1].status \in {"SUCCESS", "FAILED"}
            /\ r.calls[n].tx[1].status = "SUCCESS" <=> r.err = <<>>
            /\ \A k \in CallsOf(r, RPCOps) :
                   /\ 2 < k /\ k < n
                   /\ ~r.calls[k].ok => (k = n - 1 /\ r.calls[n].tx[1].status = "FAILED")

\* One call went through an RPC call to success and another one ended on a
\* failed RPC call, both for a first-seen key with a working repository.
C30_Witness ==
    /\ \E i \in DOMAIN returns :
          /\ FirstSeenWithWorkingRepository(returns[i])
          /\ returns[i].err = <<>>
          /\ CallsOf(returns[i], RPCOps) # {}
    /\ \E i \in DOMAIN returns :
          /\ FirstSeenWithWorkingRepository(returns[i])
          /\ \E k \in CallsOf(returns[i], RPCOps) : ~returns[i].calls[k].ok

(***************************************************************************)
(* Properties of the paths of Execute.                                     *)
(***************************************************************************)
\* The calls of the write path, in the order of the code.
WriteOrder ==
    <<"GetNonce", "GetGasPrice", "SignAndSendTransaction", "WaitForConfirmations">>

IsRPCCall(c) == c.op \in RPCOps

\* The calls of cs to the RPC client and to the signer, in order.
RPCSeq(cs) == SelectSeq(cs, IsRPCCall)

FirstSaveFailed(r) ==
    /\ Len(r.calls) >= 2
    /\ r.calls[2].op = "Save"
    /\ ~r.calls[2].ok

\* C32: when the Save of the Processing entity fails, Execute marks the
\* entity Failed, calls Save exactly once more, calls neither the RPC client
\* nor the signer, and returns a nil response with a DATABASE_ERROR error,
\* whether the second Save succeeds or not.
C32_FirstSaveFailureIsTerminal ==
    \A i \in DOMAIN returns :
        LET r == returns[i] IN
        FirstSaveFailed(r) =>
            /\ r.calls[2].tx[1].status = "PROCESSING"
            /\ Len(r.calls) = 3
            /\ r.calls[3].op = "Save"
            /\ r.calls[3].tx[1].status = "FAILED"
            /\ CallsOf(r, RPCOps) = {}
            /\ r.resp = <<>>
            /\ r.err # <<>>
            /\ r.err[1].code = "DATABASE_ERROR"

\* The first Save failed in two calls: the second Save succeeded in one of
\* them and failed in the other.
C32_Witness ==
    /\ \E i \in DOMAIN returns :
          FirstSaveFailed(returns[i]) /\ returns[i].calls[3].ok
    /\ \E i \in DOMAIN returns :
          FirstSaveFailed(returns[i]) /\ ~returns[i].calls[3].ok

\* The call that r ends reached the lookup of the RPC client and found none:
\* the key was not answered from the repository, the Processing entity was
\* stored, and the chain, a valid chain type, has no client.
NoClientForChain(r) ==
    /\ ChainTypeIsValid(r.req.ChainType)
    /\ r.req.ChainType \notin RpcClients
    /\ ~AnsweredFromRepository(r)
    /\ Len(r.calls) >= 2
    /\ r.calls[2].op = "Save"
    /\ r.calls[2].ok

\* C33: when the chain is a valid chain type without an RPC client, Execute
\* returns a CHAIN_NOT_SUPPORTED error, makes no RPC or signer call, and the
\* Transaction, stored as Processing first, is stored as Failed.
C33_NoClientIsStoredFailed ==
    \A i \in DOMAIN returns :
        LET r == returns[i] IN
        NoClientForChain(r) =>
            /\ r.calls[2].tx[1].status = "PROCESSING"
            /\ r.err # <<>>
            /\ r.err[1].code = "CHAIN_NOT_SUPPORTED"
            /\ CallsOf(r, RPCOps) = {}
            /\ r.stored # <<>>
            /\ r.stored[1].Status = "FAILED"

\* What Execute does on that path, the outcome of the last Save left open.
NoClientCallsSaveWithFailed ==
    \A i \in DOMAIN returns :
        LET r == returns[i] IN
        NoClientForChain(r) =>
            /\ r.resp = <<>>
            /\ r.err # <<>>
            /\ r.err[1].code = "CHAIN_NOT_SUPPORTED"
            /\ CallsOf(r, RPCOps) = {}
            /\ Len(r.calls) = 3
            /\ r.calls[3].op = "Save"
            /\ r.calls[3].tx[1].status = "FAILED"

\* The call that r ends reached the dispatch on the operation type: the key
\* was not answered from the repository, the Processing entity was stored and
\* the chain has an RPC client.
ReachedDispatch(r) ==
    /\ ~AnsweredFromRepository(r)
    /\ Len(r.calls) >= 2
    /\ r.calls[2].op = "Save"
    /\ r.calls[2].ok
    /\ r.req.ChainType \in RpcClients

\* C34: for a read operation kind Execute calls neither the signer nor
\* GetGasPrice; GET_BALANCE makes exactly one RPC call, GetBalance on the
\* recipient address; GET_NONCE exactly one, GetNonce on the sender address;
\* QUERY and ESTIMATE_GAS make none; and when the call succeeds the
\* Transaction ends in Success with an empty hash.
C34_ReadKindsCallAtMostOnce ==
    \A i \in DOMAIN returns :
        LET r == returns[i]
            s == RPCSeq(r.calls)
            n == Len(r.calls)
        IN r.req.OperationType \in ReadOperationTypes =>
            /\ CallsOf(r, {"GetGasPrice", "SignAndSendTransaction",
                            "WaitForConfirmations"}) = {}
            /\ ReachedDispatch(r) =>
                  /\ r.req.OperationType = "GET_BALANCE" =>
                        /\ Len(s) = 1
                        /\ s[1].op = "GetBalance"
                        /\ s[1].addr = r.req.ToAddress
                  /\ r.req.OperationType = "GET_NONCE" =>
                        /\ Len(s) = 1
                        /\ s[1].op = "GetNonce"
                        /\ s[1].addr = r.req.FromAddress
                  /\ r.req.OperationType \in {"QUERY", "ESTIMATE_GAS"} => s = <<>>
                  /\ (\A k \in DOMAIN s : s[k].ok) =>
                        /\ r.calls[n].op = "Save"
                        /\ r.calls[n].tx[1].status = "SUCCESS"
                        /\ r.calls[n].tx[1].txHash = <<>>

\* A GET_BALANCE and an ESTIMATE_GAS went through to Success.
C34_Witness ==
    /\ \E i \in DOMAIN returns :
          /\ returns[i].req.OperationType = "GET_BALANCE"
          /\ ReachedDispatch(returns[i])
          /\ returns[i].err = <<>>
    /\ \E i \in DOMAIN returns :
          /\ returns[i].req.OperationType = "ESTIMATE_GAS"
          /\ ReachedDispatch(returns[i])
          /\ returns[i].err = <<>>

(***************************************************************************)
(* Properties of ProcessWithRetry.                                         *)
(***************************************************************************)
\* The processor succeeded on its last invocation so far.
LastInvocationSucceeded ==
    procErrs # <<>> /\ procErrs[Len(procErrs)] = NilError

\* C35: when the processor succeeds on its k-th invocation, k <= maxRetries+1,
\* ProcessWithRetry returns nil at once: the processor has been invoked exactly
\* k times, the k-1 earlier invocations having failed, it is not invoked
\* again, and the dead-letter sink is never called.
C35_SuccessReturnsNilAtOnce ==
    LastInvocationSucceeded =>
        /\ Len(procErrs) <= maxRetries + 1
        /\ \A a \in 1..(Len(procErrs) - 1) : procErrs[a] # NilError
        /\ Len(sleeps) = Len(procErrs) - 1
        /\ dlqCalls = <<>>
        /\ rmPc \in {"after", "done"}
        /\ rmPc = "done" => rmResult = <<NilError>>

\* ProcessWithRetry returned nil after a retry.
C35_Witness ==
    /\ rmPc = "done"
    /\ rmResult = <<NilError>>
    /\ Len(procErrs) >= 2
    /\ LastInvocationSucceeded

\* The errors ProcessWithRetry returns on cancellation.
CancellationErrors ==
    {<<"context cancelled: ", "context canceled">>,
     <<"context cancelled during backoff: ", "context canceled">>}

\* A step taken with the context cancelled, at the head of the loop or in the
\* backoff sleep: it is the return of a cancellation error; the processor is
\* not invoked, nothing is slept and nothing reaches the dead-letter sink.
CancelledStep ==
    (ctxCancelled /\ rmPc \in {"loop", "backoff"}) =>
        /\ rmPc' = "done"
        /\ rmResult' # <<>>
        /\ rmResult'[1] \in CancellationErrors
        /\ procErrs' = procErrs
        /\ sleeps' = sleeps
        /\ dlqCalls' = dlqCalls

\* A cancellation error is returned only for a cancelled context, and with
\* nothing handed to the sink.
CancelledReturn ==
    /\ (rmPc = "done" /\ rmResult[1] \in CancellationErrors) =>
          /\ ctxCancelled
          /\ dlqCalls = <<>>
    /\ (ctxCancelled /\ rmPc \in {"loop", "backoff"}) => dlqCalls = <<>>

\* C36: when the context is cancelled before an attempt, or becomes cancelled
\* during a backoff sleep, ProcessWithRetry returns a cancellation error
\* without invoking the processor again and without any dead-letter delivery.
C36_CancellationStopsRetries ==
    /\ []CancelledReturn
    /\ [][CancelledStep]_vars

\* Cancelled during the backoff sleep after a failed attempt.
C36_Witness ==
    /\ rmPc = "done"
    /\ ctxCancelled
    /\ procErrs # <<>>
    /\ rmResult = <<<<"context cancelled during backoff: ", "context canceled">>>>

RECURSIVE Pow(_, _)
Pow(b, e) == IF e = 0 THEN 1 ELSE b * Pow(b, e - 1)

Min(a, b) == IF a <= b THEN a ELSE b

\* C37: the delay slept after the i-th failed attempt (i = 0, 1, ...) is
\* min(InitialBackoff * BackoffMultiplier^i, MaxBackoff): the delays start at
\* InitialBackoff, never decrease and never exceed MaxBackoff.
C37_BackoffIsCappedExponential ==
    /\ \A k \in DOMAIN sleeps :
          /\ sleeps[k] = Min(InitialBackoff * Pow(BackoffMultiplier, k - 1), MaxBackoff)
          /\ sleeps[k] <= MaxBackoff
          /\ k > 1 => sleeps[k - 1] <= sleeps[k]
    /\ \A a \in DOMAIN procErrs :
          (a <= Len(sleeps)) => procErrs[a] # NilError

\* The delay has reached the maximum: 100, 200, ..., 3200 and then 5000.
C37_Witness ==
    /\ Len(sleeps) >= 7
    /\ sleeps[6] < MaxBackoff
    /\ sleeps[7] = MaxBackoff
    /\ InitialBackoff * Pow(BackoffMultiplier, 6) > MaxBackoff

\* The retries are exhausted: the sink has been called and ProcessWithRetry
\* has returned.
Exhausted == rmPc = "done" /\ dlqCalls # <<>>

\* "max retries exceeded: " followed by the text of the last error of the
\* processor.
MaxRetriesExceededText == <<"max retries exceeded: ">> \o procErrs[Len(procErrs)]

\* C38 as stated: after the retries are exhausted the sink was handed the
\* original job, and the reason handed to the sink and the error returned are
\* both "max retries exceeded: " followed by the text of the final error.
C38_ReasonAndErrorCarryFinalError ==
    Exhausted =>
        /\ dlqCalls[1].message = message
        /\ dlqCalls[1].reason = MaxRetriesExceededText
        /\ rmResult = <<MaxRetriesExceededText>>

\* C38, amended: the sink is handed the original job with that reason; the
\* error returned is that text when the sink accepted the job.
C38_ReasonCarriesFinalError ==
    Exhausted =>
        /\ Len(dlqCalls) = 1
        /\ Len(procErrs) = maxRetries + 1
        /\ dlqCalls[1].message = message
        /\ message \in Messages
        /\ dlqCalls[1].reason = MaxRetriesExceededText
        /\ dlqCalls[1].ok => rmResult = <<MaxRetriesExceededText>>

\* The sink accepted a job whose attempts failed with different errors.
C38_Witness ==
    /\ Exhausted
    /\ dlqCalls[1].ok
    /\ Len(procErrs) >= 2
    /\ procErrs[1] # procErrs[Len(procErrs)]
    /\ rmResult = <<MaxRetriesExceededText>>

\* C39: when a transaction was submitted and the confirmation wait then fails
\* or times out, Execute returns an error of the TRANSACTION_FAILED kind, not
\* of the RPC_FAILED kind of the transport errors.
C39_ConfirmationFailureIsTransactionFailed ==
    \A i \in DOMAIN returns :
        LET r == returns[i] IN
        (\E k \in DOMAIN r.calls :
            r.calls[k].op = "WaitForConfirmations" /\ ~r.calls[k].ok)
        => /\ r.err # <<>>
           /\ r.err[1].code = ErrTransactionFailedCode
           /\ r.err[1].code # ErrRPCFailedCode

(***************************************************************************)
(* The state of the breaker and its failure counter.                       *)
(***************************************************************************)
\* C40: in sequential use of a breaker with failureThreshold >= 1, the
\* failure counter is below failureThreshold in Closed and at or above it in
\* Open and in HalfOpen.
C40_StateMatchesFailureCounter ==
    /\ failureThreshold >= 1
    /\ cb.state \in {"CLOSED", "OPEN", "HALF_OPEN"}
    /\ cb.state = "CLOSED" => cb.failures < failureThreshold
    /\ cb.state \in {"OPEN", "HALF_OPEN"} => cb.failures >= failureThreshold

\* The breaker is probing again after a probe that failed: it went from
\* HalfOpen to Open on a failure and back to HalfOpen after the timeout.
C40_Witness ==
    /\ cb.state = "HALF_OPEN"
    /\ cb.failures > failureThreshold

====
